---- MODULE Spec2Model ----
(***************************************************************************)
(* A state-machine model of apiware (github.com/andeya/apiware): the       *)
(* schema compiler (addFields), the schema cache (Schema.get / Schema.set) *)
(* and the binder (Bind, BindAt, BindNew, BindByName, BindFields) of       *)
(* paramapi.go.  What paramapi.go takes from the rest of the package       *)
(* (constants, the validator, the default body decoder) is modelled from   *)
(* struct.go and apiware.go.                                               *)
(*                                                                         *)
(* A record type is a sequence of field declarations; an embedded record   *)
(* carries the declarations of its own type in sub.  The param tag of  *)
(* a field is held in its parsed form (the map parseTags returns).         *)
(***************************************************************************)
EXTENDS Integers, Sequences, FiniteSets, TLC

\* ------------------------------------------------------------------ bounds
MaxTypeSize == 3   \* nodes (fields, embedded records) of a generated record type
MaxBindFields == 2 \* fields of a record type bound in SpecBind
NProcs == 2        \* concurrent callers of the library in Spec
MaxObjects == 2    \* ParamsAPI objects one run allocates

\* ------------------------------------------------------- program constants
\* A faulty ignore marker.
TAG_IGNORE_OTHER == "~"
TAG_IGNORE_PARAM == "-"
MB == 1048576
\* const accuracy = 0.0000001: the numbers of the range check are counted in the
\* PerUnit-th parts of one, and accuracy is ten of them.
PerUnit == 100000000
accuracy == 10
defaultMaxMemory == 32 * MB

fileTypeString == "multipart.FileHeader"
cookieTypeString == "http.Cookie"
fasthttpCookieTypeString == "fasthttp.Cookie"
stringTypeString == "string"
bytesTypeString == "[]byte"
bytes2TypeString == "[]uint8"

ParamTypes == {"path", "query", "formData", "body", "header", "cookie"}

\* ------------------------------------------------------------------ errors
\* The nil error.
Nil == [api |-> "", param |-> "", reason |-> ""]
NewError(api, param, reason) == [api |-> api, param |-> param, reason |-> reason]

\* errors.New("struct " + paramsAPIName + " is not registered") of GetParamsAPI
NotRegistered(paramsAPIName) ==
    [api |-> paramsAPIName, param |-> "", reason |-> "is not registered"]
\* errors.New("the structPointer's type " + name + " does not match type ...")
DoesNotMatch(name) == [api |-> name, param |-> "", reason |-> "does not match type"]

\* ------------------------------------------------------------ tag maps
\* A map[string]string over the option keys of the tag grammar; a key the map
\* does not hold is marked Absent.
Keys == {"type", "name", "required", "nonzero", "len", "range", "maxmb", "desc",
         "regexp", "err"}
Absent == "<absent>"
NoTags == [k \in Keys |-> Absent]
\* _, ok := m[k]
Has(m, k) == m[k] # Absent
\* m[k]: the zero value "" when k is missing.
Get(m, k) == IF m[k] = Absent THEN "" ELSE m[k]
\* m[k] = v
Put(m, k, v) == [m EXCEPT ![k] = v]

\* strconv.ParseInt on the maxmb values the model uses.
ParseIntOk(a) == a \in {"2", "64"}
ParseInt(a) == IF a = "2" THEN 2 ELSE IF a = "64" THEN 64 ELSE 0

\* The default naming function on the field identifiers the model uses.
toSnake(fieldName) ==
    CASE fieldName = "A" -> "a"
      [] fieldName = "B" -> "b"
      [] fieldName = "C" -> "c"
      [] fieldName = "D" -> "d"
      [] OTHER -> fieldName

\* ------------------------------------------------ field declarations
\* A declared field: reflect.StructField plus what reflection tells of its type.
\*   kind      reflect.Kind of the field type ("struct", "ptr", "string", ...)
\*   goType    field.Type.String()
\*   hasTag    the param tag is present
\*   tag       the text of the param tag, kept only as far as the ignore marker
\*             needs it
\*   tags      parseTags(tag)
\*   sub       the fields of the field's type when it is a struct
Ident(i) == CASE i = 1 -> "A" [] i = 2 -> "B" [] i = 3 -> "C" [] OTHER -> "D"

Tagged(goType, kind, tags) ==
    [goType |-> goType, kind |-> kind, anonymous |-> FALSE, hasTag |-> TRUE,
     tag |-> "type(...)", tags |-> tags, regexp |-> Absent, errTag |-> Absent,
     sub |-> <<>>]
Embedded(sub) ==
    [goType |-> "main.E", kind |-> "struct", anonymous |-> TRUE, hasTag |-> FALSE,
     tag |-> "", tags |-> NoTags, regexp |-> Absent, errTag |-> Absent,
     sub |-> sub]
Untagged(goType, kind) ==
    [goType |-> goType, kind |-> kind, anonymous |-> FALSE, hasTag |-> FALSE,
     tag |-> "", tags |-> NoTags, regexp |-> Absent, errTag |-> Absent,
     sub |-> <<>>]
Ignored(goType, kind) ==
    [goType |-> goType, kind |-> kind, anonymous |-> FALSE, hasTag |-> TRUE,
     tag |-> "-", tags |-> NoTags, regexp |-> Absent, errTag |-> Absent,
     sub |-> <<>>]

\* reflect.Zero of a field type, with every value of the model written as text.
Zero(goType) == IF goType \in {"int", "float32", "float64"} THEN "0" ELSE ""

\* A record type: its name (reflect.Type.String()), the name of the pointer to it
\* (the cache key) and its declared fields.
RecType(name, ptrName, fields) == [name |-> name, ptrName |-> ptrName, fields |-> fields]

\* -------------------------------------------------------------- compilation
\* &ParamsAPI{name, params: []*Param{}, structType, rawStruct} and the two
\* function defaults of NewParamsAPI.
NewParams(name, t, paramNameFunc) ==
    [name |-> name, params |-> <<>>, structType |-> t, maxMemory |-> 0,
     paramNameFunc |-> IF paramNameFunc # "nil" THEN paramNameFunc ELSE "toSnake"]

ApplyNameFunc(f, fieldName) ==
    IF f = "toSnake" THEN toSnake(fieldName) ELSE fieldName

\* formData and body can not exist at the same time, and there is at most one
\* body: the two flags addFields keeps while it walks the fields of ONE record.
ChannelConflict(paramType, hasFormData, hasBody) ==
    CASE paramType = "formData" /\ hasBody ->
            "formData and body params can not exist at the same time"
      [] paramType = "body" /\ hasFormData ->
            "formData and body params can not exist at the same time"
      [] paramType = "body" /\ hasBody ->
            "there should not be more than one body param"
      [] OTHER -> ""

\* switch paramTypeString: a file field must be formData, a cookie record
\* cookie.  "" when the field passes.
TypeReject(field, paramType) ==
    LET paramTypeString == field.goType IN
    CASE paramTypeString = fileTypeString /\ paramType # "formData" ->
            "when field type is multipart.FileHeader, param type must be formData"
      [] paramTypeString \in {cookieTypeString, fasthttpCookieTypeString}
            /\ paramType # "cookie" ->
            "when field type is a cookie, param type must be cookie"
      [] OTHER -> ""

\* A faulty switch paramType: its cookie case accepts every field type.
ChannelRejectAnyCookie(field, paramType, hasFormData, hasBody) ==
    CASE paramType \in {"formData", "body"} ->
            ChannelConflict(paramType, hasFormData, hasBody)
      [] paramType \in {"path", "cookie"} -> ""
      [] OTHER -> IF paramType \in ParamTypes THEN "" ELSE "invalid field type"

\* switch paramType: the case of each channel.  "" when the field passes.
ChannelReject(field, paramType, hasFormData, hasBody) ==
    LET paramTypeString == field.goType IN
    CASE paramType \in {"formData", "body"} ->
            ChannelConflict(paramType, hasFormData, hasBody)
      [] paramType = "path" -> ""
      [] paramType = "cookie" ->
            IF paramTypeString \in {cookieTypeString, fasthttpCookieTypeString,
                   stringTypeString, bytesTypeString, bytes2TypeString}
            THEN "" ELSE "invalid field type for cookie param"
      [] OTHER -> IF paramType \in ParamTypes THEN "" ELSE "invalid field type"

NumberTypes == {"int", "int8", "int16", "int32", "int64", "uint", "uint8", "uint16",
                "uint32", "uint64", "float32", "float64"}
NumberSliceTypes == {"[]int", "[]int8", "[]int16", "[]int32", "[]int64", "[]uint",
                     "[]uint8", "[]uint16", "[]uint32", "[]uint64", "[]float32",
                     "[]float64"}

\* The constraint-placement checks of one tagged field: "" when accepted.
ConstraintReject(field, parsedTags) ==
    LET paramTypeString == field.goType IN
    CASE Has(parsedTags, "len") /\ paramTypeString \notin {"string", "[]string"} ->
            "invalid len tag for non-string field"
      [] Has(parsedTags, "range")
            /\ paramTypeString \notin NumberTypes \cup NumberSliceTypes ->
            "invalid range tag for non-number field"
      [] field.regexp # Absent /\ paramTypeString \notin {"string", "[]string"} ->
            "invalid regexp tag for non-string field"
      [] Has(parsedTags, "maxmb") /\ ~ParseIntOk(parsedTags["maxmb"]) ->
            "invalid maxmb tag, it must be positive integer"
      [] OTHER -> ""

\* A faulty descriptor: required only when the tag of the field says so.
NewParamExplicitRequired(m, field, ident, indexPath, parsedTags) ==
    [indexPath |-> indexPath,
     tags |-> parsedTags,
     name |-> IF Has(parsedTags, "name") THEN parsedTags["name"]
              ELSE ApplyNameFunc(m.paramNameFunc, ident),
     isFile |-> field.goType = fileTypeString,
     isRequired |-> Has(field.tags, "required")]

\* fd := &Param{indexPath, tags, rawTag, rawValue}; name, isFile, isRequired.
NewParam(m, field, ident, indexPath, parsedTags) ==
    [indexPath |-> indexPath,
     tags |-> parsedTags,
     name |-> IF Has(parsedTags, "name") THEN parsedTags["name"]
              ELSE ApplyNameFunc(m.paramNameFunc, ident),
     isFile |-> field.goType = fileTypeString,
     isRequired |-> Has(parsedTags, "required")]

\* func (param *Param) Type(): the channel of a descriptor.
ParamType(param) == Get(param.tags, "type")

\* The hasBody flag after a field of the given channel was accepted.
NextHasBody(hasBody, paramType) == hasBody \/ paramType = "body"

\* m.maxMemory at the end of one addFields call.
FinalMaxMemory(maxMemoryMB) ==
    IF maxMemoryMB > 0 THEN maxMemoryMB * MB ELSE defaultMaxMemory

\* func (m *ParamsAPI) addFields(parentIndexPath, t, v): the loop from field i on
\* (fields are numbered from 1 here, index paths from 0 as in the code).  The
\* result is the error and the ParamsAPI as the call leaves it.
RECURSIVE addFieldsFrom(_, _, _, _, _, _, _)
addFieldsFrom(m, parentIndexPath, t, i, maxMemoryMB, hasFormData, hasBody) ==
    IF i > Len(t.fields)
    THEN [err |-> Nil, m |-> [m EXCEPT !.maxMemory = FinalMaxMemory(maxMemoryMB)]]
    ELSE
    LET field == t.fields[i]
        indexPath == Append(parentIndexPath, i - 1)
        parsedTags0 == field.tags
        paramType == Get(parsedTags0, "type")
        parsedTags1 == IF paramType = "path"
                       THEN Put(parsedTags0, "required", "required") ELSE parsedTags0
        treject == TypeReject(field, paramType)
        chreject == ChannelReject(field, paramType, hasFormData, hasBody)
        creject == ConstraintReject(field, parsedTags1)
        parsedTags2 == IF field.regexp # Absent
                       THEN Put(parsedTags1, "regexp", field.regexp) ELSE parsedTags1
        parsedTags3 == IF field.errTag # Absent
                       THEN Put(parsedTags2, "err", field.errTag) ELSE parsedTags2
        fail(reason) == [err |-> NewError(t.name, Ident(i), reason), m |-> m]
    IN
    IF ~field.hasTag THEN
        IF field.anonymous /\ field.kind = "struct"
        THEN LET r == addFieldsFrom(m, indexPath,
                          RecType(field.goType, field.goType, field.sub),
                          1, 0, FALSE, FALSE)
             IN IF r.err # Nil THEN r
                ELSE addFieldsFrom(r.m, parentIndexPath, t, i + 1,
                                   maxMemoryMB, hasFormData, hasBody)
        ELSE addFieldsFrom(m, parentIndexPath, t, i + 1,
                           maxMemoryMB, hasFormData, hasBody)
    ELSE IF field.tag = TAG_IGNORE_PARAM THEN
        addFieldsFrom(m, parentIndexPath, t, i + 1, maxMemoryMB, hasFormData, hasBody)
    ELSE IF field.kind = "ptr" THEN fail("field can not be a pointer")
    ELSE IF treject # "" THEN fail(treject)
    ELSE IF chreject # "" THEN fail(chreject)
    ELSE IF creject # "" THEN fail(creject)
    ELSE
        LET mb == IF Has(parsedTags1, "maxmb") /\ ParseInt(parsedTags1["maxmb"]) > maxMemoryMB
                  THEN ParseInt(parsedTags1["maxmb"]) ELSE maxMemoryMB
            fd == NewParam(m, field, Ident(i), indexPath, parsedTags3)
        IN addFieldsFrom([m EXCEPT !.params = Append(@, fd)], parentIndexPath, t,
                         i + 1, mb, hasFormData \/ paramType = "formData",
                         NextHasBody(hasBody, paramType))

addFields(m, parentIndexPath, t) == addFieldsFrom(m, parentIndexPath, t, 1, 0, FALSE, FALSE)

\* ---------------------------------------------- the ToStruct revision
\* struct.go and apiware.go hold the revision of the package before ParamsAPI: the
\* schema of a record type is a Struct, its descriptors are StructFields, the cache
\* maps the name of the record type to a Struct value, and ToStruct compiles a
\* record type the cache does not hold.

\* reflect.Type.Name(): the name of a type without its package.
TypeName(goType) ==
    CASE goType = fileTypeString -> "FileHeader"
      [] goType \in {cookieTypeString, fasthttpCookieTypeString} -> "Cookie"
      [] goType = "time.Time" -> "Time"
      [] goType = "main.Body" -> "Body"
      [] goType = "main.E" -> "E"
      [] OTHER -> goType

\* func addFields(m *Struct, t, v, paramNameFunc) of struct.go: the loop from field
\* i on; vpath is the place of v in the instance ToStruct was given.  The channel
\* and shape checks are those of paramapi.go, with its texts; the len, range and
\* regexp checks of paramapi.go are not made.  Calling a nil paramNameFunc panics.
RECURSIVE structAddFieldsFrom(_, _, _, _, _, _, _, _)
structAddFieldsFrom(m, t, vpath, i, maxMemoryMB, hasFormData, hasBody, paramNameFunc) ==
    IF i > Len(t.fields)
    THEN [err |-> Nil, panic |-> FALSE,
          m |-> [m EXCEPT !.MaxMemory = FinalMaxMemory(maxMemoryMB)]]
    ELSE
    LET field == t.fields[i]
        paramType == Get(field.tags, "type")
        parsedTags1 == IF paramType = "path"
                       THEN Put(field.tags, "required", "required") ELSE field.tags
        treject == TypeReject(field, paramType)
        chreject == ChannelReject(field, paramType, hasFormData, hasBody)
        parsedTags2 == IF field.regexp # Absent
                       THEN Put(parsedTags1, "regexp", field.regexp) ELSE parsedTags1
        parsedTags3 == IF field.errTag # Absent
                       THEN Put(parsedTags2, "err", field.errTag) ELSE parsedTags2
        fail(reason) == [err |-> NewError(t.name, Ident(i), reason), panic |-> FALSE,
                         m |-> m]
        next(m1, mb, fdata, body) ==
            structAddFieldsFrom(m1, t, vpath, i + 1, mb, fdata, body, paramNameFunc)
    IN
    IF ~field.hasTag THEN
        IF field.anonymous /\ field.kind = "struct"
        THEN LET r == structAddFieldsFrom(m, RecType(field.goType, field.goType, field.sub),
                                          Append(vpath, i - 1), 1, 0, FALSE, FALSE,
                                          paramNameFunc)
             IN IF r.err # Nil \/ r.panic THEN r
                ELSE next(r.m, maxMemoryMB, hasFormData, hasBody)
        ELSE next(m, maxMemoryMB, hasFormData, hasBody)
    ELSE IF field.tag = TAG_IGNORE_PARAM THEN next(m, maxMemoryMB, hasFormData, hasBody)
    ELSE IF field.kind = "ptr" THEN fail("field can not be a pointer")
    ELSE IF treject # "" THEN fail(treject)
    ELSE IF chreject # "" THEN fail(chreject)
    ELSE IF Has(parsedTags1, "maxmb") /\ ~ParseIntOk(parsedTags1["maxmb"])
    THEN fail("invalid maxmb tag, it must be positive integer")
    ELSE IF ~Has(parsedTags3, "name") /\ paramNameFunc = "nil"
    THEN [err |-> Nil, panic |-> TRUE, m |-> m]
    ELSE
        LET mb == IF Has(parsedTags1, "maxmb") /\ ParseInt(parsedTags1["maxmb"]) > maxMemoryMB
                  THEN ParseInt(parsedTags1["maxmb"]) ELSE maxMemoryMB
            fd == [Index |-> i - 1,
                   Name |-> IF Has(parsedTags3, "name") THEN parsedTags3["name"]
                            ELSE ApplyNameFunc(paramNameFunc, Ident(i)),
                   Value |-> Append(vpath, i - 1),
                   isRequired |-> Has(parsedTags3, "required"),
                   isFile |-> TypeName(field.goType) = fileTypeString,
                   Tags |-> parsedTags3]
        IN next([m EXCEPT !.Fields = Append(@, fd)], mb,
                hasFormData \/ paramType = "formData", NextHasBody(hasBody, paramType))

\* func ToStruct(structReceiverPtr, paramNameFunc ...ParamNameFunc) on the cache l:
\* the error or panic, the Struct it returns and the cache as it leaves it.  On a
\* hit the descriptors are copied with their values bound anew, each to
\* v.Field(field.Index), which panics when the record has no field of that index.
ToStruct(l, t, argKind, paramNameFunc) ==
    LET none == [Name |-> "", Fields |-> <<>>, MaxMemory |-> 0, structType |-> t] IN
    IF argKind # "ptr-struct"
    THEN [err |-> NewError(IF argKind = "struct" THEN t.name ELSE "*int", "*",
                           "the binding object must be a struct pointer"),
          panic |-> FALSE, obj |-> none, lib |-> l]
    ELSE IF t.name \in DOMAIN l
    THEN LET c == l[t.name] IN
         IF \E k \in 1..Len(c.Fields) : c.Fields[k].Index >= Len(t.fields)
         THEN [err |-> Nil, panic |-> TRUE, obj |-> none, lib |-> l]
         ELSE [err |-> Nil, panic |-> FALSE,
               obj |-> [c EXCEPT !.Fields =
                           [k \in 1..Len(c.Fields) |->
                               [c.Fields[k] EXCEPT !.Value = <<c.Fields[k].Index>>]]],
               lib |-> l]
    ELSE LET r == structAddFieldsFrom([none EXCEPT !.Name = t.name], t, <<>>, 1, 0,
                                      FALSE, FALSE,
                                      IF Len(paramNameFunc) > 0 THEN paramNameFunc[1]
                                      ELSE "toSnake")
         IN IF r.panic \/ r.err # Nil
            THEN [err |-> r.err, panic |-> r.panic, obj |-> none, lib |-> l]
            ELSE [err |-> Nil, panic |-> FALSE, obj |-> r.m,
                  lib |-> [n \in DOMAIN l \cup {r.m.Name} |->
                              IF n = r.m.Name THEN r.m ELSE l[n]]]

\* func New(pathDecodeFunc, bodyDecodeFunc, paramNameFunc ...ParamNameFunc) of
\* apiware.go: _paramNameFunc is set when no naming function is given, and only
\* then.
New(paramNameFunc) ==
    [made |-> TRUE,
     ParamNameFunc |-> IF Len(paramNameFunc) = 0 THEN "toSnake" ELSE "nil",
     given |-> paramNameFunc]

\* ------------------------------------------------------------- instances
\* A live value of a record type: one slot per declared field, in order; the slot
\* of a struct field holds the slots of that struct in sub.
RECURSIVE NewInstance(_)
NewInstance(fields) ==
    [k \in 1..Len(fields) |->
        [goType |-> fields[k].goType, kind |-> fields[k].kind,
         val |-> Zero(fields[k].goType), sub |-> NewInstance(fields[k].sub)]]

\* value.Field(index) along a whole index path does not panic.
RECURSIVE PathOk(_, _)
PathOk(slots, path) ==
    IF path = <<>> THEN TRUE
    ELSE /\ Head(path) + 1 \in 1..Len(slots)
         /\ \/ Len(path) = 1
            \/ /\ slots[Head(path) + 1].kind = "struct"
               /\ PathOk(slots[Head(path) + 1].sub, Tail(path))

\* The slot an index path leads to.
RECURSIVE SlotAt(_, _)
SlotAt(slots, path) ==
    IF Len(path) = 1 THEN slots[Head(path) + 1]
    ELSE SlotAt(slots[Head(path) + 1].sub, Tail(path))

\* value.Set(x) on the slot an index path leads to.
RECURSIVE SetAt(_, _, _)
SetAt(slots, path, x) ==
    IF Len(path) = 1 THEN [slots EXCEPT ![Head(path) + 1].val = x]
    ELSE [slots EXCEPT ![Head(path) + 1].sub = SetAt(@, Tail(path), x)]

\* func (paramsAPI *ParamsAPI) usefulFields(structElem): the live slots, one per
\* param, each reached along the param's index path; Panics when a Field call does.
usefulFieldsPanics(paramsAPI, structElem) ==
    \E k \in 1..Len(paramsAPI.params) : ~PathOk(structElem, paramsAPI.params[k].indexPath)
\* A faulty usefulFields: it follows the last index of each path alone, from the
\* instance itself.
usefulFieldsLastIndex(paramsAPI, structElem) ==
    [k \in 1..Len(paramsAPI.params) |->
        <<paramsAPI.params[k].indexPath[Len(paramsAPI.params[k].indexPath)]>>]
usefulFields(paramsAPI, structElem) ==
    [k \in 1..Len(paramsAPI.params) |-> paramsAPI.params[k].indexPath]

\* ------------------------------------------------------------- requests
\* The values a request carries under one wire name in one source: none, or one.
Maybe == {<<>>, <<"7">>, <<"x">>}
CTypes == {"none", "urlencoded", "multipart"}
\* req.Body: a nil reader, a reader that fails, no bytes, a JSON text, other bytes.
Bodies == {"nil", "readerr", "empty", "json", "garbage"}

\* What the request carries for one field: under the field's wire name in the path
\* parameters (p), the URL query (q), the form body (f: urlencoded or multipart
\* values), the uploaded files (file), the headers (h), the cookies (c), and its
\* body reader (body).
NoView == [p |-> <<>>, q |-> <<>>, f |-> <<>>, file |-> FALSE, h |-> <<>>,
           c |-> FALSE, body |-> "empty"]

ViewsFor(ch, rq) ==
    LET FormVals == IF rq.ctype = "none" THEN {<<>>} ELSE Maybe IN
    CASE ch = "path" -> { [NoView EXCEPT !.p = x] : x \in Maybe }
      [] ch = "query" -> { [NoView EXCEPT !.q = x, !.f = y] : x \in Maybe, y \in FormVals }
      [] ch = "formData" ->
            { [NoView EXCEPT !.q = x, !.f = y, !.file = z] :
                x \in Maybe, y \in FormVals,
                z \in IF rq.ctype = "multipart" THEN BOOLEAN ELSE {FALSE} }
      [] ch = "header" -> { [NoView EXCEPT !.h = x] : x \in Maybe }
      [] ch = "cookie" -> { [NoView EXCEPT !.c = x] : x \in BOOLEAN }
      [] ch = "body" ->
            { [NoView EXCEPT !.body = x] : x \in IF rq.bodyRead THEN {"empty"} ELSE Bodies }
      [] OTHER -> {NoView}

\* A request before BindFields touches it: its Content-Type class, whether
\* req.MultipartForm is set, whether its body reader was consumed, and how many
\* times its body was parsed as a form (by ParseForm or by ParseMultipartForm).
NewRequest(ctype) ==
    [ctype |-> ctype, multipartForm |-> FALSE, bodyRead |-> FALSE, formParsed |-> 0]

\* req.Form[name]: the form-body values ParseForm (urlencoded) or
\* ParseMultipartForm (multipart, once it ran) merged in, then the query values.
FormValues(view, rq) ==
    (IF rq.ctype = "urlencoded" \/ (rq.ctype = "multipart" /\ rq.multipartForm)
     THEN view.f ELSE <<>>) \o view.q

\* convertAssign(value, src): the first source string parsed as the slot's type.
convertAssign(goType, src) ==
    IF src = <<>> THEN [err |-> "", set |-> FALSE, val |-> ""]
    ELSE IF goType = "string" THEN [err |-> "", set |-> TRUE, val |-> src[1]]
    ELSE IF goType = "int" /\ src[1] = "7" THEN [err |-> "", set |-> TRUE, val |-> "7"]
    ELSE [err |-> "type conversion error", set |-> FALSE, val |-> ""]

\* paramsAPI.bodyDecodeFunc(value, body) with the default JSON decoder.
bodyDecode(body) ==
    IF body = "json" THEN [err |-> "", set |-> TRUE, val |-> "decoded"]
    ELSE [err |-> "body decode error", set |-> FALSE, val |-> ""]

\* ------------------------------------------------------------- the validator
\* What a validation step yields: no error (kind ""), a validation error of a
\* kind for a field, another error value with its text, or a panic with its text.
Outcome(kind, field, text, panic) ==
    [kind |-> kind, field |-> field, text |-> text, panic |-> panic]
NoErr == Outcome("", "", "", FALSE)

\* err.Error(): the text of an error that is no validation error, and for a
\* validation error the name of the field followed by its failure kind.
ErrorText(e) ==
    IF e.kind \in {"error", "fault"} THEN e.text ELSE e.field \o " " \o e.kind

\* The bytes of the texts the validator takes apart: the len and range tuples,
\* and the values of the fields.
Chars(s) ==
    CASE s = "3:6" -> <<"3", ":", "6">>
      [] s = ":4" -> <<":", "4">>
      [] s = "3:" -> <<"3", ":">>
      [] s = "3" -> <<"3">>
      [] s = ":" -> <<":">>
      [] s = "10:20" -> <<"1", "0", ":", "2", "0">>
      [] s = "0" -> <<"0">>
      [] s = "7" -> <<"7">>
      [] s = "12" -> <<"1", "2">>
      [] s = "123" -> <<"1", "2", "3">>
      [] s = "123456" -> <<"1", "2", "3", "4", "5", "6">>
      [] s = "15" -> <<"1", "5">>
      [] s = "10" -> <<"1", "0">>
      [] s = "20" -> <<"2", "0">>
      [] s = "21" -> <<"2", "1">>
      [] s = "9.999999" -> <<"9", ".", "9", "9", "9", "9", "9", "9">>
      [] s = "9.99999995" -> <<"9", ".", "9", "9", "9", "9", "9", "9", "9", "5">>
      [] s = "20.00000005" -> <<"2", "0", ".", "0", "0", "0", "0", "0", "0", "0", "5">>
      [] s = "20.000001" -> <<"2", "0", ".", "0", "0", "0", "0", "0", "1">>
      [] s = "x" -> <<"x">>
      [] s = "ab" -> <<"a", "b">>
      [] s = "1234567" -> <<"1", "2", "3", "4", "5", "6", "7">>
      [] OTHER -> <<>>

\* strings.Split(tuple, ":")
RECURSIVE SplitColon(_)
SplitColon(cs) ==
    IF cs = <<>> THEN << <<>> >>
    ELSE LET rest == SplitColon(Tail(cs)) IN
         IF Head(cs) = ":" THEN << <<>> >> \o rest
         ELSE << <<Head(cs)>> \o rest[1] >> \o Tail(rest)

\* func parseTuple(tuple): the two sides, or the panic "invalid validation tuple".
parseTuple(tuple) ==
    LET c == SplitColon(Chars(tuple)) IN
    CASE Len(c) = 1 /\ Len(c[1]) > 0 -> [panic |-> FALSE, a |-> c[1], b |-> c[1]]
      [] Len(c) = 2 /\ (Len(c[1]) > 0 \/ Len(c[2]) > 0) ->
            [panic |-> FALSE, a |-> c[1], b |-> c[2]]
      [] OTHER -> [panic |-> TRUE, a |-> <<>>, b |-> <<>>]

\* The value of a decimal digit, -1 for another byte.
Digit(ch) ==
    CASE ch = "0" -> 0 [] ch = "1" -> 1 [] ch = "2" -> 2 [] ch = "3" -> 3
      [] ch = "4" -> 4 [] ch = "5" -> 5 [] ch = "6" -> 6 [] ch = "7" -> 7
      [] ch = "8" -> 8 [] ch = "9" -> 9 [] OTHER -> -1

\* strconv.Atoi on unsigned decimal texts: ok and the number.
RECURSIVE Atoi(_)
Atoi(cs) ==
    IF cs = <<>> THEN [ok |-> FALSE, n |-> 0]
    ELSE LET d == Digit(cs[Len(cs)])
             front == IF Len(cs) = 1 THEN [ok |-> TRUE, n |-> 0]
                      ELSE Atoi(SubSeq(cs, 1, Len(cs) - 1))
         IN [ok |-> d >= 0 /\ front.ok, n |-> front.n * 10 + d]

\* A faulty validateLen: a string of the length min is too short.
LenWithinExclusive(s, t, field) ==
    IF t.panic THEN Outcome("fault", "", "invalid validation tuple", TRUE)
    ELSE IF Len(t.a) > 0 /\ Len(s) <= Atoi(t.a).n
    THEN Outcome("too short", field, "", FALSE)
    ELSE IF Len(t.b) > 0 /\ Len(s) >= Atoi(t.b).n
    THEN Outcome("too long", field, "", FALSE)
    ELSE NoErr

\* validateLen once parseTuple gave the two sides t.
LenWithin(s, t, field) ==
    IF t.panic THEN Outcome("fault", "", "invalid validation tuple", TRUE)
    ELSE IF Len(t.a) > 0 /\ ~Atoi(t.a).ok
    THEN Outcome("fault", "", "strconv.Atoi", TRUE)
    ELSE IF Len(t.a) > 0 /\ Len(s) < Atoi(t.a).n
    THEN Outcome("too short", field, "", FALSE)
    ELSE IF Len(t.b) > 0 /\ ~Atoi(t.b).ok
    THEN Outcome("fault", "", "strconv.Atoi", TRUE)
    ELSE IF Len(t.b) > 0 /\ Len(s) > Atoi(t.b).n
    THEN Outcome("too long", field, "", FALSE)
    ELSE NoErr

\* func validateLen(s, tuple, field)
validateLen(s, tuple, field) == LenWithin(s, parseTuple(tuple), field)

\* math.Abs
Abs(x) == IF x < 0 THEN -x ELSE x

\* A faulty validateRange: it has no tolerance.
RangeWithinNoTolerance(f64, t, field) ==
    IF t.panic THEN Outcome("fault", "", "invalid validation tuple", TRUE)
    ELSE IF Len(t.a) > 0 /\ f64 < Atoi(t.a).n * PerUnit
    THEN Outcome("too small", field, "", FALSE)
    ELSE IF Len(t.b) > 0 /\ f64 > Atoi(t.b).n * PerUnit
    THEN Outcome("too big", field, "", FALSE)
    ELSE NoErr

\* validateRange once parseTuple gave the two sides t, every number counted in
\* the PerUnit-th parts of one.
RangeWithin(f64, t, field) ==
    IF t.panic THEN Outcome("fault", "", "invalid validation tuple", TRUE)
    ELSE IF Len(t.a) > 0 /\ ~Atoi(t.a).ok
    THEN Outcome("error", "", "strconv.ParseFloat", FALSE)
    ELSE IF Len(t.a) > 0 /\ f64 <= Atoi(t.a).n * PerUnit
                         /\ Abs(f64 - Atoi(t.a).n * PerUnit) > accuracy
    THEN Outcome("too small", field, "", FALSE)
    ELSE IF Len(t.b) > 0 /\ ~Atoi(t.b).ok
    THEN Outcome("error", "", "strconv.ParseFloat", FALSE)
    ELSE IF Len(t.b) > 0 /\ f64 >= Atoi(t.b).n * PerUnit
                         /\ Abs(f64 - Atoi(t.b).n * PerUnit) > accuracy
    THEN Outcome("too big", field, "", FALSE)
    ELSE NoErr

\* func validateRange(f64, tuple, field)
validateRange(f64, tuple, field) == RangeWithin(f64, parseTuple(tuple), field)

\* func validateRegexp(s, reg, field), for the pattern of the decimal numbers; any
\* other pattern of the model does not compile.
validateRegexp(s, reg, field) ==
    IF reg = "^[0-9]+$"
    THEN IF Chars(s) # <<>> /\ \A i \in 1..Len(Chars(s)) : Digit(Chars(s)[i]) >= 0
         THEN NoErr ELSE Outcome("not match", field, "", FALSE)
    ELSE Outcome("error", "", "error parsing regexp", FALSE)

\* Where the decimal point of a number stands in its text: past the end when it
\* has none.
DotAt(cs) ==
    IF \E i \in 1..Len(cs) : cs[i] = "." THEN CHOOSE i \in 1..Len(cs) : cs[i] = "."
    ELSE Len(cs) + 1

Pow10(n) ==
    CASE n = 0 -> 1 [] n = 1 -> 10 [] n = 2 -> 100 [] n = 3 -> 1000 [] n = 4 -> 10000
      [] n = 5 -> 100000 [] n = 6 -> 1000000 [] n = 7 -> 10000000 [] OTHER -> 0

\* The number a field holds, the model keeping it as a decimal text with the
\* point at place dot: counted in the PerUnit-th parts of one.
Units(cs, dot) ==
    Atoi(SubSeq(cs, 1, dot - 1)).n * PerUnit
    + (IF dot >= Len(cs) THEN 0
       ELSE Atoi(SubSeq(cs, dot + 1, Len(cs))).n * Pow10(8 - (Len(cs) - dot)))

\* A faulty Float: it takes a slice of numbers for a number.
FieldFloatOfSlices(val, goType) ==
    [ok |-> goType \in NumberTypes \cup NumberSliceTypes,
     f |-> Units(Chars(val), DotAt(Chars(val)))]

\* func (field *StructField) Float(): ok for the number kinds.
FieldFloat(val, goType) ==
    [ok |-> goType \in NumberTypes, f |-> Units(Chars(val), DotAt(Chars(val)))]

\* func (field *StructField) IsZero(): x.Interface() == reflect.Zero(x.Type())
\* .Interface(), which panics when the type of the field is not comparable.
IsZero(val, goType) ==
    IF goType \in NumberSliceTypes
                    \cup {"[]string", bytesTypeString, fileTypeString, cookieTypeString,
                          fasthttpCookieTypeString}
    THEN [panic |-> TRUE, zero |-> FALSE]
    ELSE [panic |-> FALSE, zero |-> val = Zero(goType)]

\* if field.IsZero() { return NewValidationError(ValidationErrorValueNotSet, ...) }
\* for what IsZero gave.
NotSet(isZero, name) ==
    IF isZero.panic THEN Outcome("fault", "", "comparing uncomparable type", TRUE)
    ELSE IF isZero.zero THEN Outcome("not set", name, "", FALSE)
    ELSE NoErr

\* What the body of Validate returns: the outcome of the first check, in the order
\* the checks are made, that is no success.
FirstFailure(checks) ==
    IF \A j \in 1..Len(checks) : checks[j] = NoErr THEN NoErr
    ELSE checks[CHOOSE j \in 1..Len(checks) :
                   /\ checks[j] # NoErr
                   /\ \A h \in 1..(j - 1) : checks[h] = NoErr]

\* The deferred function of Validate: it puts the err tag in the place of an error
\* that was returned, and turns a panic into an error when the field has no err
\* tag; a panic of a field with an err tag leaves err nil.
Deferred(tags, raw) ==
    IF Has(tags, "err")
    THEN IF raw # NoErr /\ ~raw.panic
         THEN Outcome("error", "", tags["err"], FALSE) ELSE NoErr
    ELSE IF raw.panic THEN Outcome("error", "", raw.text, FALSE) ELSE raw

\* A faulty Validate: it looks at the non-zero constraint first.
ValidateNonzeroFirst(tags, name, val, goType) ==
    Deferred(tags, FirstFailure(
        << IF Has(tags, "nonzero") THEN NotSet(IsZero(val, goType), name) ELSE NoErr,
           IF Has(tags, "len") /\ goType = "string"
           THEN validateLen(val, tags["len"], name) ELSE NoErr,
           IF Has(tags, "range") /\ FieldFloat(val, goType).ok
           THEN validateRange(FieldFloat(val, goType).f, tags["range"], name)
           ELSE NoErr,
           IF Has(tags, "regexp") /\ goType = "string"
           THEN validateRegexp(val, tags["regexp"], name) ELSE NoErr >>))

\* func (field *StructField) Validate(): length, range, non-zero, pattern, each
\* when the value has the shape for it, the first error returned, and the
\* deferred function applied to it.
Validate(tags, name, val, goType) ==
    Deferred(tags, FirstFailure(
        << IF Has(tags, "len") /\ goType = "string"
           THEN validateLen(val, tags["len"], name) ELSE NoErr,
           IF Has(tags, "range") /\ FieldFloat(val, goType).ok
           THEN validateRange(FieldFloat(val, goType).f, tags["range"], name)
           ELSE NoErr,
           IF Has(tags, "nonzero") THEN NotSet(IsZero(val, goType), name) ELSE NoErr,
           IF Has(tags, "regexp") /\ goType = "string"
           THEN validateRegexp(val, tags["regexp"], name) ELSE NoErr >>))

\* param.validate(value) of BindFields.
ParamValidate(param, val, goType) ==
    LET e == Validate(param.tags, param.name, val, goType) IN
    IF e = NoErr THEN Nil ELSE NewError("", param.name, ErrorText(e))

\* ------------------------------------------------------- one field of a bind
\* What one iteration of the loop of BindFields does for one param: the error it
\* returns (Nil: none), whether and to what it sets the slot, the request as it
\* leaves it, and what happened (outcome: assigned, skipped, failed or panic;
\* validated: param.validate ran; decoded: the body-decode function ran, on
\* bodyArg).
StepResult(err, set, val, rq, outcome, validated) ==
    [err |-> err, set |-> set, val |-> val, rq |-> rq, outcome |-> outcome,
     validated |-> validated, decoded |-> FALSE, bodyArg |-> ""]

\* The tail of the loop body: if err = param.validate(value); err != nil.
ValidateStep(param, slot, rq, set, val) ==
    StepResult(ParamValidate(param, IF set THEN val ELSE slot.val, slot.goType),
               set, val, rq, IF set THEN "assigned" ELSE "skipped", TRUE)

FailStep(api, param, rq, reason) ==
    StepResult(NewError(api.name, param.name, reason), FALSE, "", rq, "failed", FALSE)

\* The cases that convertAssign the values found, or fail when a required param
\* has none: query, formData (not a file), header.
AssignValues(api, param, slot, rq, paramValues, missing) ==
    IF paramValues # <<>>
    THEN LET c == convertAssign(slot.goType, paramValues) IN
         IF c.err # "" THEN FailStep(api, param, rq, c.err)
         ELSE ValidateStep(param, slot, rq, c.set, c.val)
    ELSE IF param.isRequired THEN FailStep(api, param, rq, missing)
    ELSE ValidateStep(param, slot, rq, FALSE, "")

\* case "path"
PathCase(api, param, slot, rq, view) ==
    IF view.p = <<>> THEN FailStep(api, param, rq, "missing path param")
    ELSE LET c == convertAssign(slot.goType, view.p) IN
         IF c.err # "" THEN FailStep(api, param, rq, c.err)
         ELSE ValidateStep(param, slot, rq, c.set, c.val)

\* case "formData"
FormDataCase(api, param, slot, rq, view) ==
    LET parseFails == ~rq.multipartForm /\ rq.ctype # "multipart"
        rq1 == IF rq.multipartForm THEN rq
               ELSE [rq EXCEPT !.multipartForm = TRUE, !.bodyRead = TRUE,
                               !.formParsed = @ + 1]
    IN
    IF parseFails
    THEN FailStep(api, param, rq, "request Content-Type isn't multipart/form-data")
    ELSE IF param.isFile
    THEN IF ~view.file
         THEN IF param.isRequired
              THEN FailStep(api, param, rq1, "missing formData param")
              ELSE StepResult(Nil, FALSE, "", rq1, "skipped", FALSE)
         ELSE StepResult(Nil, TRUE, "file", rq1, "assigned", FALSE)
    ELSE AssignValues(api, param, slot, rq1, FormValues(view, rq1),
                      "missing formData param")

\* case "body"
BodyCase(api, param, slot, rq, view) ==
    LET content == view.body
        rq1 == [rq EXCEPT !.bodyRead = TRUE]
        d == bodyDecode(content)
    IN
    IF content = "nil"
    THEN StepResult(NewError(api.name, "?", "nil pointer dereference"),
                    FALSE, "", rq, "panic", FALSE)
    ELSE IF content # "readerr"
    THEN IF d.err # ""
         THEN [FailStep(api, param, rq1, d.err) EXCEPT
                  !.decoded = TRUE, !.bodyArg = content]
         ELSE [ValidateStep(param, slot, rq1, d.set, d.val) EXCEPT
                  !.decoded = TRUE, !.bodyArg = content]
    ELSE IF param.isRequired THEN FailStep(api, param, rq1, "missing body param")
    ELSE ValidateStep(param, slot, rq1, FALSE, "")

\* case "cookie"
CookieCase(api, param, slot, rq, view) ==
    IF view.c
    THEN IF slot.goType \in {cookieTypeString, stringTypeString, bytesTypeString,
                             bytes2TypeString}
         THEN ValidateStep(param, slot, rq, TRUE, "cookie")
         ELSE FailStep(api, param, rq, "invalid cookie param type")
    ELSE IF param.isRequired THEN FailStep(api, param, rq, "missing cookie param")
    ELSE ValidateStep(param, slot, rq, FALSE, "")

\* switch param.Type() of the loop of BindFields, with the validate call after it.
FieldStep(api, param, slot, rq, view) ==
    LET ch == ParamType(param) IN
    CASE ch = "path" -> PathCase(api, param, slot, rq, view)
      [] ch = "query" ->
            AssignValues(api, param, slot, rq, FormValues(view, rq), "missing query param")
      [] ch = "formData" -> FormDataCase(api, param, slot, rq, view)
      [] ch = "body" -> BodyCase(api, param, slot, rq, view)
      [] ch = "header" ->
            AssignValues(api, param, slot, rq, view.h, "missing header param")
      [] ch = "cookie" -> CookieCase(api, param, slot, rq, view)
      [] OTHER -> ValidateStep(param, slot, rq, FALSE, "")

\* ------------------------------------------------------------ generated types
\* The tagged field declarations record types are generated from.
TagDecls ==
    { Tagged("string", "string", [NoTags EXCEPT !.type = "query"]),
      Tagged("int", "int", [NoTags EXCEPT !.type = "query", !.required = ""]),
      Tagged("string", "string", [NoTags EXCEPT !.type = "formData"]),
      Tagged(fileTypeString, "struct",
             [NoTags EXCEPT !.type = "formData", !.maxmb = "2"]),
      Tagged("main.Body", "struct", [NoTags EXCEPT !.type = "body"]),
      Tagged("int", "int", [NoTags EXCEPT !.type = "path"]),
      Tagged("string", "string", [NoTags EXCEPT !.type = "cookie"]),
      Tagged(fileTypeString, "struct", [NoTags EXCEPT !.type = "query"]),
      Tagged("string", "string", [NoTags EXCEPT !.type = "head"]),
      Tagged(cookieTypeString, "struct", [NoTags EXCEPT !.type = "cookie"]),
      Tagged(cookieTypeString, "struct", [NoTags EXCEPT !.type = "header"]),
      Tagged("int", "int", [NoTags EXCEPT !.type = "cookie"]) }

OtherDecls ==
    { Untagged("time.Time", "struct"), Ignored("string", "string"),
      Tagged("*int", "ptr", [NoTags EXCEPT !.type = "query"]) }

\* The field lists of exactly n nodes (a field is one node, an embedded record one
\* node more than its fields), and the single fields of exactly n nodes.
RECURSIVE FieldListsOfSize(_), FieldsOfSize(_)
FieldsOfSize(n) ==
    IF n = 1 THEN TagDecls \cup OtherDecls \cup {Embedded(<<>>)}
    ELSE { Embedded(sub) : sub \in FieldListsOfSize(n - 1) }
FieldListsOfSize(n) ==
    IF n = 0 THEN {<<>>}
    ELSE UNION { { <<f>> \o rest : f \in FieldsOfSize(k),
                                   rest \in FieldListsOfSize(n - k) } : k \in 1..n }

GenTypes ==
    { RecType("main.T", "*main.T", fs) :
        fs \in UNION { FieldListsOfSize(n) : n \in 0..MaxTypeSize } }

\* Record types with embedded records two levels deep, an untagged field and an
\* ignored one among the bound fields.
NestedTypes ==
    { RecType("main.T", "*main.T",
              << Tagged("string", "string", [NoTags EXCEPT !.type = "query"]),
                 Embedded(<< Tagged("string", "string", [NoTags EXCEPT !.type = "header"]),
                             Embedded(<< Tagged("string", "string",
                                                [NoTags EXCEPT !.type = "cookie"]) >>),
                             Untagged("time.Time", "struct") >>),
                 Ignored("string", "string"),
                 Tagged("int", "int", [NoTags EXCEPT !.type = "path"]) >>),
      RecType("main.T", "*main.T",
              << Embedded(<< Embedded(<< Tagged("int", "int",
                                                [NoTags EXCEPT !.type = "query",
                                                               !.name = "id"]) >>) >>),
                 Tagged("string", "string",
                        [NoTags EXCEPT !.type = "header", !.nonzero = ""]) >>) }

\* Two record types of two packages that have the same package name: both are
\* model.User to reflect.Type.String().
SameNameTypes ==
    { RecType("model.User", "*model.User",
              << Tagged("string", "string", [NoTags EXCEPT !.type = "query"]) >>),
      RecType("model.User", "*model.User",
              << Tagged("int", "int", [NoTags EXCEPT !.type = "header"]),
                 Tagged("string", "string", [NoTags EXCEPT !.type = "query"]) >>) }

\* ------------------------------------------------------------------- state
Procs == 1..NProcs

VARIABLES
    heap,    \* the ParamsAPI objects allocated so far; a *ParamsAPI is an index
             \* into heap, 0 the nil pointer
    lib,     \* defaultSchema.lib: type name -> *ParamsAPI (paramapi.go), or
             \* type name -> Struct in the runs of the ToStruct revision (struct.go)
    mu,      \* the sync.RWMutex of the Schema: the writer (0: none) and the readers
    types,   \* the record types the callers of this run may pass
    pc,      \* pc[p]: where caller p stands
    call,    \* call[p]: the operation caller p is in, with its arguments
    m,       \* m[p]: the *ParamsAPI caller p builds or binds with; the Struct
             \* that ToStruct gave Validate in the runs of the ToStruct revision
    res,     \* res[p]: what the last operation of caller p returned
    inst,    \* inst[p]: the slots of the instance caller p binds to
    flds,    \* flds[p]: the live field slots of the bind, as paths into inst[p]
    idx,     \* idx[p]: the loop index of BindFields
    req,     \* req[p]: the request of the bind
    trace,   \* trace[p]: per field the bind got to, what the request carried
             \* for it and what the loop did
    apiware  \* the Apiware engine of apiware.go the callers share, once New made it

bindvars == <<inst, flds, idx, req, trace>>
vars == <<heap, lib, mu, types, pc, call, m, res, inst, flds, idx, req, trace, apiware>>

NoLib == [n \in {} |-> 0]
\* No engine yet: var a *Apiware.  given keeps the naming functions New was
\* called with.
NoApiware == [made |-> FALSE, ParamNameFunc |-> "nil", given |-> <<>>]
NoCall == [op |-> "none", t |-> RecType("", "", <<>>), argKind |-> "", key |-> ""]
NoRes == [op |-> "none", err |-> Nil, panic |-> FALSE]

Return(p, op, err) == res' = [res EXCEPT ![p] = [op |-> op, err |-> err, panic |-> FALSE]]

\* What a call starts from: the locals of the bind are not yet assigned.
ClearBind(p, ctype) ==
    /\ req' = [req EXCEPT ![p] = NewRequest(ctype)]
    /\ trace' = [trace EXCEPT ![p] = <<>>]
    /\ idx' = [idx EXCEPT ![p] = 0]
    /\ flds' = [flds EXCEPT ![p] = <<>>]

\* schema.lib[m.name] = m
Store(l, name, ptr) == [n \in DOMAIN l \cup {name} |-> IF n = name THEN ptr ELSE l[n]]

\* ---------------------------------------------------------- NewParamsAPI
\* NewParamsAPI up to the addFields call: the kind checks and the new ParamsAPI.
ArgKinds == {"ptr-struct", "struct", "ptr-int"}

NewParamsAPIStart(p, t, argKind) ==
    /\ pc[p] = "idle"
    /\ call' = [call EXCEPT ![p] = [op |-> "NewParamsAPI", t |-> t, argKind |-> argKind,
                                     key |-> t.ptrName]]
    /\ ClearBind(p, "none")
    /\ inst' = [inst EXCEPT ![p] = <<>>]
    /\ IF argKind # "ptr-struct"
       THEN /\ Return(p, "NewParamsAPI",
                      NewError(IF argKind = "struct" THEN t.name ELSE "*int", "*",
                               "the binding object must be a struct pointer"))
            /\ m' = [m EXCEPT ![p] = 0]
            /\ UNCHANGED <<pc, heap>>
       ELSE /\ Len(heap) < MaxObjects
            /\ heap' = Append(heap, NewParams(t.ptrName, t, "nil"))
            /\ m' = [m EXCEPT ![p] = Len(heap) + 1]
            /\ pc' = [pc EXCEPT ![p] = "addFields"]
            /\ res' = [res EXCEPT ![p] = NoRes]
    /\ UNCHANGED <<lib, mu, types, apiware>>

\* A faulty NewParamsAPI: it stores m before it looks at the error of addFields.
NewParamsAPIAddFieldsStoresFirst(p) ==
    /\ pc[p] = "addFields"
    /\ LET r == addFields(heap[m[p]], <<>>, call[p].t) IN
       /\ heap' = [heap EXCEPT ![m[p]] = r.m]
       /\ lib' = Store(lib, r.m.name, m[p])
       /\ IF r.err # Nil
          THEN /\ Return(p, "NewParamsAPI", r.err)
               /\ pc' = [pc EXCEPT ![p] = "idle"]
               /\ m' = [m EXCEPT ![p] = 0]
          ELSE /\ pc' = [pc EXCEPT ![p] = "set"]
               /\ UNCHANGED <<m, res>>
    /\ UNCHANGED <<mu, types, apiware, call, bindvars>>

\* err := m.addFields([]int{}, m.structType, v); if err != nil { return nil, err }
NewParamsAPIAddFields(p) ==
    /\ pc[p] = "addFields"
    /\ LET r == addFields(heap[m[p]], <<>>, call[p].t) IN
       /\ heap' = [heap EXCEPT ![m[p]] = r.m]
       /\ IF r.err # Nil
          THEN /\ Return(p, "NewParamsAPI", r.err)
               /\ pc' = [pc EXCEPT ![p] = "idle"]
               /\ m' = [m EXCEPT ![p] = 0]
          ELSE /\ pc' = [pc EXCEPT ![p] = "set"]
               /\ UNCHANGED <<m, res>>
    /\ UNCHANGED <<lib, mu, types, apiware, call, bindvars>>

\* func (schema *Schema) set(m): schema.Lock()
SetLock(p) ==
    /\ pc[p] = "set"
    /\ mu.w = 0 /\ mu.r = {}
    /\ mu' = [mu EXCEPT !.w = p]
    /\ pc' = [pc EXCEPT ![p] = "set-store"]
    /\ UNCHANGED <<heap, lib, types, apiware, call, m, res, bindvars>>

\* A faulty set: it makes a new map that holds the new entry alone.
SetStoreEvicts(p) ==
    /\ pc[p] = "set-store"
    /\ lib' = Store(NoLib, heap[m[p]].name, m[p])
    /\ pc' = [pc EXCEPT ![p] = "set-unlock"]
    /\ UNCHANGED <<heap, mu, types, apiware, call, m, res, bindvars>>

SetStore(p) ==
    /\ pc[p] = "set-store"
    /\ lib' = Store(lib, heap[m[p]].name, m[p])
    /\ pc' = [pc EXCEPT ![p] = "set-unlock"]
    /\ UNCHANGED <<heap, mu, types, apiware, call, m, res, bindvars>>

\* the deferred schema.Unlock(), and the return of NewParamsAPI
SetUnlock(p) ==
    /\ pc[p] = "set-unlock"
    /\ mu' = [mu EXCEPT !.w = 0]
    /\ pc' = [pc EXCEPT ![p] = "idle"]
    /\ Return(p, call[p].op, Nil)
    /\ UNCHANGED <<heap, lib, types, apiware, call, m, bindvars>>

\* A faulty get: it does not wait for the writer.
GetRLockNoWait(p) ==
    /\ pc[p] = "get"
    /\ mu' = [mu EXCEPT !.r = @ \cup {p}]
    /\ pc' = [pc EXCEPT ![p] = "get-load"]
    /\ UNCHANGED <<heap, lib, types, apiware, call, m, res, bindvars>>

\* ------------------------------------------------------------ the cache read
\* func (schema *Schema) get(paramsAPIName): schema.RLock()
GetRLock(p) ==
    /\ pc[p] = "get"
    /\ mu.w = 0
    /\ mu' = [mu EXCEPT !.r = @ \cup {p}]
    /\ pc' = [pc EXCEPT ![p] = "get-load"]
    /\ UNCHANGED <<heap, lib, types, apiware, call, m, res, bindvars>>

\* m, ok := schema.lib[paramsAPIName]
GetLoad(p) ==
    /\ pc[p] = "get-load"
    /\ m' = [m EXCEPT ![p] = IF call[p].key \in DOMAIN lib THEN lib[call[p].key] ELSE 0]
    /\ pc' = [pc EXCEPT ![p] = "get-runlock"]
    /\ UNCHANGED <<heap, lib, mu, types, apiware, call, res, bindvars>>

\* A faulty GetParamsAPI: on a miss it compiles the type of the bind and stores
\* the schema, as ToStruct of struct.go does.
GetRUnlockCompiles(p) ==
    /\ pc[p] = "get-runlock"
    /\ mu' = [mu EXCEPT !.r = @ \ {p}]
    /\ LET r == addFields(NewParams(call[p].key, call[p].t, "nil"), <<>>, call[p].t) IN
       IF m[p] = 0 /\ (r.err # Nil \/ Len(heap) >= MaxObjects)
       THEN /\ Return(p, call[p].op, NotRegistered(call[p].key))
            /\ pc' = [pc EXCEPT ![p] = "idle"]
            /\ UNCHANGED <<inst, heap, lib, m>>
       ELSE /\ pc' = [pc EXCEPT ![p] = "usefulFields"]
            /\ inst' = [inst EXCEPT ![p] =
                          IF call[p].op = "BindByName"
                          THEN NewInstance(call[p].t.fields) ELSE @]
            /\ IF m[p] = 0
               THEN /\ heap' = Append(heap, r.m)
                    /\ lib' = Store(lib, call[p].key, Len(heap) + 1)
                    /\ m' = [m EXCEPT ![p] = Len(heap) + 1]
               ELSE UNCHANGED <<heap, lib, m>>
            /\ UNCHANGED res
    /\ UNCHANGED <<types, apiware, call, flds, idx, req, trace>>

\* the deferred schema.RUnlock(); GetParamsAPI returns the error of a miss, which
\* Bind and BindByName return to their caller.  On a hit BindByName makes the new
\* instance: paramStruct = reflect.New(paramsAPI.structType).
GetRUnlock(p) ==
    /\ pc[p] = "get-runlock"
    /\ mu' = [mu EXCEPT !.r = @ \ {p}]
    /\ IF m[p] = 0
       THEN /\ Return(p, call[p].op, NotRegistered(call[p].key))
            /\ pc' = [pc EXCEPT ![p] = "idle"]
            /\ UNCHANGED inst
       ELSE /\ pc' = [pc EXCEPT ![p] = "usefulFields"]
            /\ inst' = [inst EXCEPT ![p] =
                          IF call[p].op = "BindByName"
                          THEN NewInstance(heap[m[p]].structType.fields) ELSE @]
            /\ UNCHANGED res
    /\ UNCHANGED <<heap, lib, types, apiware, call, m, flds, idx, req, trace>>

\* ------------------------------------------------------------ the bind calls
\* The struct pointers a caller passes for a record type: a new instance, or a nil
\* pointer of the type.
Targets == {"new", "nil"}
TargetInstance(t, target) == IF target = "new" THEN NewInstance(t.fields) ELSE <<>>

BeginBind(p, op, t, key, ctype) ==
    /\ call' = [call EXCEPT ![p] = [op |-> op, t |-> t, argKind |-> "ptr-struct", key |-> key]]
    /\ ClearBind(p, ctype)
    /\ res' = [res EXCEPT ![p] = NoRes]

\* func Bind(structPointer, req, pathParams): up to the GetParamsAPI call.
Bind(p, t, target, ctype) ==
    /\ pc[p] = "idle"
    /\ BeginBind(p, "Bind", t, t.ptrName, ctype)
    /\ inst' = [inst EXCEPT ![p] = TargetInstance(t, target)]
    /\ m' = [m EXCEPT ![p] = 0]
    /\ pc' = [pc EXCEPT ![p] = "get"]
    /\ UNCHANGED <<heap, lib, mu, types, apiware>>

\* func BindByName(paramsAPIName, req, pathParams): up to the GetParamsAPI call.
BindByName(p, t, ctype) ==
    /\ pc[p] = "idle"
    /\ BeginBind(p, "BindByName", t, t.ptrName, ctype)
    /\ inst' = [inst EXCEPT ![p] = <<>>]
    /\ m' = [m EXCEPT ![p] = 0]
    /\ pc' = [pc EXCEPT ![p] = "get"]
    /\ UNCHANGED <<heap, lib, mu, types, apiware>>

\* func (paramsAPI *ParamsAPI) BindAt(structPointer, req, pathParams): the type-name
\* check.  The receiver is a ParamsAPI the cache holds.
BindAt(p, n, t, target, ctype) ==
    /\ pc[p] = "idle"
    /\ n \in DOMAIN lib
    /\ call' = [call EXCEPT ![p] = [op |-> "BindAt", t |-> t, argKind |-> "ptr-struct",
                                     key |-> t.ptrName]]
    /\ ClearBind(p, ctype)
    /\ m' = [m EXCEPT ![p] = lib[n]]
    /\ IF t.ptrName # heap[lib[n]].name
       THEN /\ Return(p, "BindAt", DoesNotMatch(t.ptrName))
            /\ inst' = [inst EXCEPT ![p] = TargetInstance(t, target)]
            /\ UNCHANGED pc
       ELSE /\ inst' = [inst EXCEPT ![p] = TargetInstance(t, target)]
            /\ pc' = [pc EXCEPT ![p] = "usefulFields"]
            /\ res' = [res EXCEPT ![p] = NoRes]
    /\ UNCHANGED <<heap, lib, mu, types, apiware>>

\* func (paramsAPI *ParamsAPI) BindNew(req, pathParams): NewReceiver.
BindNew(p, n, ctype) ==
    /\ pc[p] = "idle"
    /\ n \in DOMAIN lib
    /\ BeginBind(p, "BindNew", heap[lib[n]].structType, n, ctype)
    /\ m' = [m EXCEPT ![p] = lib[n]]
    /\ inst' = [inst EXCEPT ![p] = NewInstance(heap[lib[n]].structType.fields)]
    /\ pc' = [pc EXCEPT ![p] = "usefulFields"]
    /\ UNCHANGED <<heap, lib, mu, types, apiware>>

\* paramsAPI.usefulFields(reflect.ValueOf(structPointer).Elem()), evaluated as an
\* argument of the BindFields call: a panic of it is the caller's.
UsefulFields(p) ==
    /\ pc[p] = "usefulFields"
    /\ IF usefulFieldsPanics(heap[m[p]], inst[p])
       THEN /\ res' = [res EXCEPT ![p] = [op |-> call[p].op, err |-> Nil, panic |-> TRUE]]
            /\ pc' = [pc EXCEPT ![p] = "idle"]
            /\ UNCHANGED flds
       ELSE /\ flds' = [flds EXCEPT ![p] = usefulFields(heap[m[p]], inst[p])]
            /\ pc' = [pc EXCEPT ![p] = "BindFields"]
            /\ UNCHANGED res
    /\ UNCHANGED <<heap, lib, mu, types, apiware, call, m, inst, idx, req, trace>>

\* func (paramsAPI *ParamsAPI) BindFields(fields, req, pathParams) called by the
\* user: the fields are the live slots of a new instance, or fewer of them.
BindFieldsCall(p, n, nfields, ctype) ==
    /\ pc[p] = "idle"
    /\ n \in DOMAIN lib
    /\ nfields \in 0..Len(heap[lib[n]].params)
    /\ BeginBind(p, "BindFields", heap[lib[n]].structType, n, ctype)
    /\ m' = [m EXCEPT ![p] = lib[n]]
    /\ inst' = [inst EXCEPT ![p] = NewInstance(heap[lib[n]].structType.fields)]
    /\ flds' = [flds EXCEPT ![p] = SubSeq(usefulFields(heap[lib[n]], <<>>), 1, nfields)]
    /\ pc' = [pc EXCEPT ![p] = "BindFields"]
    /\ UNCHANGED <<heap, lib, mu, types, apiware>>

\* BindFields before its loop: req.ParseForm(), which may fail.  ParseForm reads
\* and parses the body of an urlencoded request, on top of the URL query.
BindFieldsParseForm(p, formErr) ==
    /\ pc[p] = "BindFields"
    /\ IF formErr
       THEN /\ Return(p, call[p].op, NewError(heap[m[p]].name, "*", "ParseForm error"))
            /\ pc' = [pc EXCEPT ![p] = "idle"]
            /\ UNCHANGED <<idx, req>>
       ELSE /\ idx' = [idx EXCEPT ![p] = 1]
            /\ req' = [req EXCEPT ![p].bodyRead = (req[p].ctype = "urlencoded"),
                                  ![p].formParsed =
                                      IF req[p].ctype = "urlencoded" THEN 1 ELSE 0]
            /\ pc' = [pc EXCEPT ![p] = "loop"]
            /\ UNCHANGED res
    /\ UNCHANGED <<heap, lib, mu, types, apiware, call, m, inst, flds, trace>>

\* What the trace keeps of one iteration.
Entry(param, view, r) ==
    [name |-> param.name, ch |-> ParamType(param), isRequired |-> param.isRequired,
     isFile |-> param.isFile, view |-> view, outcome |-> r.outcome, set |-> r.set,
     validated |-> r.validated, decoded |-> r.decoded, bodyArg |-> r.bodyArg,
     err |-> r.err]

\* The views of every channel, for the requests of every state.
Views ==
    UNION { ViewsFor(ch, [NewRequest("multipart") EXCEPT !.bodyRead = FALSE]) :
              ch \in ParamTypes }

\* A faulty loop: a field that fails clears the instance.
LoopStepClearsOnError(p, view) ==
    /\ pc[p] = "loop"
    /\ idx[p] <= Len(heap[m[p]].params)
    /\ idx[p] <= Len(flds[p])
    /\ LET param == heap[m[p]].params[idx[p]]
           slot == SlotAt(inst[p], flds[p][idx[p]])
           r == FieldStep(heap[m[p]], param, slot, req[p], view)
       IN /\ view \in ViewsFor(ParamType(param), req[p])
          /\ trace' = [trace EXCEPT ![p] = Append(@, Entry(param, view, r))]
          /\ req' = [req EXCEPT ![p] = r.rq]
          /\ inst' = [inst EXCEPT ![p] =
                        IF r.err # Nil THEN NewInstance(call[p].t.fields)
                        ELSE IF r.set THEN SetAt(@, flds[p][idx[p]], r.val) ELSE @]
          /\ IF r.err # Nil
             THEN /\ Return(p, call[p].op, r.err)
                  /\ pc' = [pc EXCEPT ![p] = "idle"]
                  /\ UNCHANGED idx
             ELSE /\ idx' = [idx EXCEPT ![p] = @ + 1]
                  /\ UNCHANGED <<pc, res>>
    /\ UNCHANGED <<lib, mu, types, apiware, call, m, flds>>

\* One iteration of for i, param := range paramsAPI.params.  value := fields[i]
\* panics when the caller gave too few fields; the deferred recover turns every
\* panic of the loop into the error of field "?".
LoopStep(p, view) ==
    /\ pc[p] = "loop"
    /\ idx[p] <= Len(heap[m[p]].params)
    /\ LET param == heap[m[p]].params[idx[p]] IN
       IF idx[p] > Len(flds[p])
       THEN /\ view = NoView
            /\ Return(p, call[p].op, NewError(heap[m[p]].name, "?", "index out of range"))
            /\ pc' = [pc EXCEPT ![p] = "idle"]
            /\ UNCHANGED <<inst, idx, req, trace>>
       ELSE
       LET slot == SlotAt(inst[p], flds[p][idx[p]])
           r == FieldStep(heap[m[p]], param, slot, req[p], view)
       IN /\ view \in ViewsFor(ParamType(param), req[p])
          /\ trace' = [trace EXCEPT ![p] = Append(@, Entry(param, view, r))]
          /\ req' = [req EXCEPT ![p] = r.rq]
          /\ inst' = [inst EXCEPT ![p] =
                        IF r.set THEN SetAt(@, flds[p][idx[p]], r.val) ELSE @]
          /\ IF r.err # Nil
             THEN /\ Return(p, call[p].op, r.err)
                  /\ pc' = [pc EXCEPT ![p] = "idle"]
                  /\ UNCHANGED idx
             ELSE /\ idx' = [idx EXCEPT ![p] = @ + 1]
                  /\ UNCHANGED <<pc, res>>
    /\ UNCHANGED <<lib, mu, types, apiware, call, m, flds>>

\* A faulty loop: it notes on the shared descriptor that the field was seen, by
\* marking it required.
BindFieldsLoopMarksParam(p, view) ==
    /\ LoopStep(p, view)
    /\ heap' = [heap EXCEPT ![m[p]].params[idx[p]].isRequired = TRUE]

BindFieldsLoop(p, view) ==
    /\ LoopStep(p, view)
    /\ UNCHANGED heap

\* The loop is over: return (err is nil).
BindFieldsReturn(p) ==
    /\ pc[p] = "loop"
    /\ idx[p] > Len(heap[m[p]].params)
    /\ Return(p, call[p].op, Nil)
    /\ pc' = [pc EXCEPT ![p] = "idle"]
    /\ UNCHANGED <<heap, lib, mu, types, apiware, call, m, bindvars>>

\* The blank state of the callers.
InitCallers ==
    /\ heap = <<>>
    /\ lib = NoLib
    /\ mu = [w |-> 0, r |-> {}]
    /\ pc = [p \in Procs |-> "idle"]
    /\ call = [p \in Procs |-> NoCall]
    /\ m = [p \in Procs |-> 0]
    /\ res = [p \in Procs |-> NoRes]
    /\ inst = [p \in Procs |-> <<>>]
    /\ flds = [p \in Procs |-> <<>>]
    /\ idx = [p \in Procs |-> 0]
    /\ req = [p \in Procs |-> NewRequest("none")]
    /\ trace = [p \in Procs |-> <<>>]
    /\ apiware = NoApiware

\* ------------------------------------------------- compilation on its own
\* One caller registers one generated record type, again and again.
InitCompile ==
    /\ InitCallers
    /\ types \in { {t} : t \in GenTypes \cup NestedTypes } \cup {SameNameTypes}

NextCompile ==
    \/ \E t \in types, k \in ArgKinds : NewParamsAPIStart(1, t, k)
    \/ NewParamsAPIAddFields(1)
    \/ SetLock(1)
    \/ SetStore(1)
    \/ SetUnlock(1)

SpecCompile == InitCompile /\ [][NextCompile]_vars

\* ----------------------------------------------------------- binds on their own
\* The field declarations the bound record types are made of.
BindDecls ==
    { Tagged("string", "string", [NoTags EXCEPT !.type = "query"]),
      Tagged("int", "int", [NoTags EXCEPT !.type = "query", !.required = ""]),
      Tagged("string", "string", [NoTags EXCEPT !.type = "query", !.nonzero = ""]),
      Tagged("string", "string", [NoTags EXCEPT !.type = "formData"]),
      Tagged("string", "string", [NoTags EXCEPT !.type = "formData", !.required = ""]),
      Tagged(fileTypeString, "struct", [NoTags EXCEPT !.type = "formData", !.nonzero = ""]),
      Tagged(fileTypeString, "struct", [NoTags EXCEPT !.type = "formData", !.required = ""]),
      Tagged("main.Body", "struct", [NoTags EXCEPT !.type = "body", !.required = ""]),
      Tagged("main.Body", "struct", [NoTags EXCEPT !.type = "body"]),
      Tagged("int", "int", [NoTags EXCEPT !.type = "path"]),
      Tagged("string", "string", [NoTags EXCEPT !.type = "header"]),
      Tagged("string", "string", [NoTags EXCEPT !.type = "header", !.required = ""]),
      Tagged("string", "string", [NoTags EXCEPT !.type = "cookie"]),
      Tagged("string", "string", [NoTags EXCEPT !.type = "cookie", !.required = ""]) }

RECURSIVE DeclLists(_)
DeclLists(n) ==
    IF n = 0 THEN {<<>>}
    ELSE DeclLists(n - 1) \cup
         { Append(fs, f) : fs \in { x \in DeclLists(n - 1) : Len(x) = n - 1 },
                           f \in BindDecls }

BindTypes == { RecType("main.T", "*main.T", fs) : fs \in DeclLists(MaxBindFields) }

\* A record type nobody registers.
OtherType == RecType("main.U", "*main.U", << Untagged("string", "string") >>)

InitBind ==
    /\ InitCallers
    /\ types \in { {t} : t \in BindTypes \cup NestedTypes }

NextBind ==
    \/ \E t \in types, k \in ArgKinds : NewParamsAPIStart(1, t, k)
    \/ NewParamsAPIAddFields(1)
    \/ SetLock(1)
    \/ SetStore(1)
    \/ SetUnlock(1)
    \/ \E t \in types \cup {OtherType}, g \in Targets, c \in CTypes : Bind(1, t, g, c)
    \/ \E t \in types \cup {OtherType}, c \in CTypes : BindByName(1, t, c)
    \/ \E n \in DOMAIN lib, t \in types \cup {OtherType}, g \in Targets, c \in CTypes :
          BindAt(1, n, t, g, c)
    \/ \E n \in DOMAIN lib, c \in CTypes : BindNew(1, n, c)
    \/ \E n \in DOMAIN lib, k \in 0..MaxBindFields, c \in CTypes : BindFieldsCall(1, n, k, c)
    \/ GetRLock(1)
    \/ GetLoad(1)
    \/ GetRUnlock(1)
    \/ UsefulFields(1)
    \/ \E e \in BOOLEAN : BindFieldsParseForm(1, e)
    \/ \E view \in Views : BindFieldsLoop(1, view)
    \/ BindFieldsReturn(1)

SpecBind == InitBind /\ [][NextBind]_vars

\* ------------------------------------------- the engine of apiware.go
\* a = New(pathDecodeFunc, bodyDecodeFunc, paramNameFunc...)
ApiwareNew(p, paramNameFunc) ==
    /\ pc[p] = "idle"
    /\ apiware' = New(paramNameFunc)
    /\ call' = [call EXCEPT ![p] = [NoCall EXCEPT !.op = "New"]]
    /\ Return(p, "New", Nil)
    /\ UNCHANGED <<heap, lib, mu, types, pc, m, bindvars>>

\* a.RegStruct(obj) with one object, a zero value of record type t or something
\* that is no struct pointer: ToStruct(obj, a.ParamNameFunc), nothing recovers.
RegStruct(p, t, argKind) ==
    /\ pc[p] = "idle"
    /\ apiware.made
    /\ LET r == ToStruct(lib, t, argKind, <<apiware.ParamNameFunc>>) IN
        /\ lib' = r.lib
        /\ res' = [res EXCEPT ![p] = [op |-> "RegStruct", err |-> r.err,
                                      panic |-> r.panic]]
    /\ call' = [call EXCEPT ![p] = [op |-> "RegStruct", t |-> t, argKind |-> argKind,
                                    key |-> t.name]]
    /\ inst' = [inst EXCEPT ![p] = NewInstance(t.fields)]
    /\ UNCHANGED <<heap, mu, types, apiware, pc, m, flds, idx, req, trace>>

\* The values a field of the validated records may hold.
ValsOf(goType) ==
    IF goType = "string" THEN {"", "12", "ab", "123", "123456", "1234567"}
    ELSE IF goType = "int" THEN {"0", "7", "10", "15", "20", "21"}
    ELSE IF goType = "[]string" THEN {"", "x"}
    ELSE IF goType = "[]int" THEN {"", "7"}
    ELSE IF goType = "float64"
    THEN {"9.999999", "9.99999995", "10", "20", "20.00000005", "20.000001"}
    ELSE {Zero(goType)}

\* The instances of record type t: every top level field holds one of its values.
InstancesOf(t) ==
    LET zero == NewInstance(t.fields)
        AllVals == UNION { ValsOf(t.fields[k].goType) : k \in 1..Len(t.fields) }
    IN { [k \in 1..Len(zero) |-> [zero[k] EXCEPT !.val = vals[k]]] :
           vals \in { f \in [1..Len(zero) -> AllVals] :
                        \A k \in 1..Len(zero) : f[k] \in ValsOf(t.fields[k].goType) } }

\* func (model *Struct) Validate() from field i on: the first field that does not
\* validate ends the loop.
RECURSIVE StructValidateFrom(_, _, _)
StructValidateFrom(model, structValue, i) ==
    IF i > Len(model.Fields) THEN Nil
    ELSE LET field == model.Fields[i]
             slot == SlotAt(structValue, field.Value)
             e == Validate(field.Tags, field.Name, slot.val, slot.goType)
         IN IF e # NoErr THEN NewError(model.Name, field.Name, ErrorText(e))
            ELSE StructValidateFrom(model, structValue, i + 1)

\* func Validate(f interface{}) error on the instance structValue of record type
\* t: ToStruct(f), then model.Validate().
ValidateCall(p, t, argKind, structValue) ==
    /\ pc[p] = "idle"
    /\ LET r == ToStruct(lib, t, argKind, <<>>) IN
        /\ lib' = r.lib
        /\ res' = [res EXCEPT ![p] =
                      [op |-> "Validate",
                       err |-> IF r.panic \/ r.err # Nil THEN r.err
                               ELSE StructValidateFrom(r.obj, structValue, 1),
                       panic |-> r.panic]]
        /\ m' = [m EXCEPT ![p] = r.obj]
    /\ call' = [call EXCEPT ![p] = [op |-> "Validate", t |-> t, argKind |-> argKind,
                                    key |-> t.name]]
    /\ inst' = [inst EXCEPT ![p] = structValue]
    /\ UNCHANGED <<heap, mu, types, apiware, pc, flds, idx, req, trace>>

\* The naming functions an engine may be made with: none, or one that leaves the
\* identifier as it is.
NamingFunctions == {<<>>, <<"identity">>}

\* The declarations of the validated records.
EngineDecls ==
    { [Tagged("string", "string",
              [NoTags EXCEPT !.type = "query", !.len = "3:6", !.nonzero = ""])
         EXCEPT !.regexp = "^[0-9]+$"],
      Tagged("int", "int",
             [NoTags EXCEPT !.type = "query", !.range = "10:20", !.nonzero = ""]),
      [Tagged("string", "string",
              [NoTags EXCEPT !.type = "query", !.name = "id", !.len = "3:6"])
         EXCEPT !.errTag = "bad id"],
      Tagged("string", "string", [NoTags EXCEPT !.type = "path"]) }

\* More declarations, of records of one field.
SingleDecls ==
    { Tagged("string", "string",
             [NoTags EXCEPT !.type = "query", !.len = ":4", !.nonzero = ""]),
      Tagged("string", "string", [NoTags EXCEPT !.type = "query", !.len = "3:"]),
      [Tagged("string", "string", [NoTags EXCEPT !.type = "header", !.nonzero = ""])
         EXCEPT !.regexp = "^[0-9]+$"],
      Tagged("int", "int", [NoTags EXCEPT !.type = "query", !.len = "3:6"]),
      Tagged("float64", "float64", [NoTags EXCEPT !.type = "query", !.range = "10:20"]),
      Tagged("[]string", "slice", [NoTags EXCEPT !.type = "query", !.nonzero = ""]),
      [Tagged("string", "string", [NoTags EXCEPT !.type = "query", !.len = ":"])
         EXCEPT !.errTag = "bad len"],
      [Tagged("[]string", "slice", [NoTags EXCEPT !.type = "query", !.len = "3:6"])
         EXCEPT !.regexp = "^[0-9]+$"],
      Tagged("[]int", "slice", [NoTags EXCEPT !.type = "query", !.range = "10:20"]) }

\* Records with an embedded record: one that is nothing else, and one with a
\* field of its own before the embedded record.
EmbeddedTypes ==
    { RecType("main.T", "*main.T",
              << Embedded(<< Tagged("string", "string", [NoTags EXCEPT !.type = "query"]),
                             Tagged("string", "string",
                                    [NoTags EXCEPT !.type = "header"]) >>) >>),
      RecType("main.T", "*main.T",
              << Tagged("int", "int", [NoTags EXCEPT !.type = "query"]),
                 Embedded(<< Tagged("string", "string",
                                    [NoTags EXCEPT !.type = "query"]),
                             Tagged("string", "string",
                                    [NoTags EXCEPT !.type = "header"]) >>) >>) }

MaxEngineFields == 2
EngineTypes ==
    { RecType("main.T", "*main.T", fs) :
        fs \in UNION { [1..n -> EngineDecls] : n \in 1..MaxEngineFields }
                  \cup { <<d>> : d \in SingleDecls } }
    \cup EmbeddedTypes

\* One caller makes engines, registers one record type and validates instances
\* of it, again and again.
InitEngine ==
    /\ InitCallers
    /\ types \in { {t} : t \in EngineTypes }

NextEngine ==
    \/ \E f \in NamingFunctions : ApiwareNew(1, f)
    \/ \E t \in types, k \in ArgKinds : RegStruct(1, t, k)
    \/ \E t \in types, k \in ArgKinds :
          \E v \in InstancesOf(t) : ValidateCall(1, t, k, v)

SpecEngine == InitEngine /\ [][NextEngine]_vars

\* ---------------------------------------------------------- parseTags
\* The annotation parser, on texts held as the sequences of their bytes.

\* strings.Split(cs, sep) for a separator of one byte.
RECURSIVE Split(_, _)
Split(cs, sep) ==
    IF cs = <<>> THEN << <<>> >>
    ELSE LET rest == Split(Tail(cs), sep) IN
         IF Head(cs) = sep THEN << <<>> >> \o rest
         ELSE << <<Head(cs)>> \o rest[1] >> \o Tail(rest)

\* The string of a sequence of bytes.
RECURSIVE Join(_)
Join(cs) == IF cs = <<>> THEN "" ELSE Head(cs) \o Join(Tail(cs))

\* for _, v := range c of parseTags, from the option at i on, parsed the map m so far.
RECURSIVE parseTagsFrom(_, _, _)
parseTagsFrom(c, i, parsed) ==
    IF i > Len(c) THEN parsed
    ELSE parseTagsFrom(c, i + 1,
            IF Len(Split(c[i], "(")) = 2 /\ Len(Split(c[i], "(")[2]) > 1
            THEN Store(parsed, Join(Split(c[i], "(")[1]),
                       Join(SubSeq(Split(c[i], "(")[2], 1,
                                   Len(Split(c[i], "(")[2]) - 1)))
            ELSE Store(parsed, Join(c[i]), ""))

\* A faulty parseTags: it takes the semicolon for the separator of the options.
parseTagsAtSemicolon(s) == parseTagsFrom(Split(s, ";"), 1, NoLib)

\* func parseTags(s string) map[string]string, the same in paramapi.go and in
\* struct.go.
parseTags(s) == parseTagsFrom(Split(s, ","), 1, NoLib)

\* The options of the annotations that are parsed: the text of each, and how it
\* reads: a bare key, a key with a value in parentheses, or a malformed
\* parenthesis form.
TagOptions ==
    { [text |-> <<"a">>, form |-> "bare", key |-> "a", value |-> ""],
      [text |-> <<"b">>, form |-> "bare", key |-> "b", value |-> ""],
      [text |-> <<"a", "(", "c", ")">>, form |-> "valued", key |-> "a", value |-> "c"],
      [text |-> <<"a", "(", "d", ")">>, form |-> "valued", key |-> "a", value |-> "d"],
      [text |-> <<"b", "(", "c", ")">>, form |-> "valued", key |-> "b", value |-> "c"],
      [text |-> <<"b", "(", "c", "d", ")">>, form |-> "valued", key |-> "b",
       value |-> "cd"],
      [text |-> <<"b", "(", "c", ")", ")">>, form |-> "valued", key |-> "b",
       value |-> "c)"],
      [text |-> <<"a", "(", ")">>, form |-> "malformed", key |-> "a", value |-> ""],
      [text |-> <<"a", "(", "c">>, form |-> "malformed", key |-> "a", value |-> "c"],
      [text |-> <<"a", "(", "c", "d">>, form |-> "malformed", key |-> "a",
       value |-> "cd"],
      [text |-> <<"a", "(", "c", "(", "d", ")">>, form |-> "malformed", key |-> "a",
       value |-> "c(d"] }

\* The text of an annotation: its options with a comma between them.
RECURSIVE AnnotationText(_)
AnnotationText(options) ==
    IF Len(options) = 1 THEN options[1].text
    ELSE options[1].text \o <<",">> \o AnnotationText(Tail(options))

MaxOptions == 2

\* One caller holds an annotation of one or two options and has it parsed.
InitTags ==
    /\ heap = <<>> /\ lib = NoLib /\ mu = [w |-> 0, r |-> {}] /\ types = {}
    /\ pc = [p \in Procs |-> "idle"]
    /\ m = [p \in Procs |-> 0]
    /\ res = [p \in Procs |-> NoRes]
    /\ inst = [p \in Procs |-> <<>>]
    /\ flds = [p \in Procs |-> <<>>]
    /\ idx = [p \in Procs |-> 0]
    /\ req = [p \in Procs |-> NewRequest("none")]
    /\ trace = [p \in Procs |-> <<>>]
    /\ apiware = NoApiware
    /\ \E options \in UNION { [1..n -> TagOptions] : n \in 1..MaxOptions } :
          call = [p \in Procs |-> IF p = 1 THEN [op |-> "parseTags", options |-> options]
                                  ELSE NoCall]

\* m := parseTags(tag)
ParseTagsCall(p) ==
    /\ pc[p] = "idle"
    /\ call[p].op = "parseTags"
    /\ res[p].op = "none"
    /\ res' = [res EXCEPT ![p] = [op |-> "parseTags", err |-> Nil, panic |-> FALSE,
                                  m |-> parseTags(AnnotationText(call[p].options))]]
    /\ UNCHANGED <<heap, lib, mu, types, apiware, pc, call, m, bindvars>>

NextTags == ParseTagsCall(1)

SpecTags == InitTags /\ [][NextTags]_vars

\* ------------------------------------------------ concurrent callers
\* The record types of the concurrent runs: two that compile and one that does not
\* (a tagged pointer field).
GoodType ==
    RecType("main.G", "*main.G",
            <<Tagged("int", "int", [NoTags EXCEPT !.type = "query", !.required = ""])>>)
SecondType ==
    RecType("main.H", "*main.H",
            <<Tagged("string", "string", [NoTags EXCEPT !.type = "header"])>>)
BadType ==
    RecType("main.B", "*main.B",
            <<Tagged("*int", "ptr", [NoTags EXCEPT !.type = "query"])>>)

\* The requests of the concurrent runs carry no body.
PlainCTypes == {"none"}

Init ==
    /\ InitCallers
    /\ types = {GoodType, SecondType, BadType}

Next ==
    \E p \in Procs :
        \/ \E t \in types, k \in ArgKinds : NewParamsAPIStart(p, t, k)
        \/ NewParamsAPIAddFields(p)
        \/ SetLock(p)
        \/ SetStore(p)
        \/ SetUnlock(p)
        \/ \E t \in types, c \in PlainCTypes : Bind(p, t, "new", c)
        \/ \E t \in types, c \in PlainCTypes : BindByName(p, t, c)
        \/ \E n \in DOMAIN lib, c \in PlainCTypes : BindNew(p, n, c)
        \/ GetRLock(p)
        \/ GetLoad(p)
        \/ GetRUnlock(p)
        \/ UsefulFields(p)
        \/ \E e \in BOOLEAN : BindFieldsParseForm(p, e)
        \/ \E view \in Views : BindFieldsLoop(p, view)
        \/ BindFieldsReturn(p)

Spec == Init /\ [][Next]_vars

\* ------------------------------------------------------------------ claims
CountChannel(api, ch) ==
    Cardinality({k \in 1..Len(api.params) : ParamType(api.params[k]) = ch})

\* C1: every schema compilation accepts and caches has no Body field, or exactly
\* one Body field and no FormData field, counting the fields flattened from
\* embedded records at any depth.
C1_BodyExclusive ==
    \A n \in DOMAIN lib :
        \/ CountChannel(heap[lib[n]], "body") = 0
        \/ /\ CountChannel(heap[lib[n]], "body") = 1
           /\ CountChannel(heap[lib[n]], "formData") = 0

\* The request carries no value under the wire name of the field of a trace entry,
\* in any source the channel of the field reads.
NoValue(e) ==
    CASE e.ch = "path" -> e.view.p = <<>>
      [] e.ch = "query" -> e.view.q = <<>> /\ e.view.f = <<>>
      [] e.ch = "formData" ->
            IF e.isFile THEN ~e.view.file ELSE e.view.f = <<>> /\ e.view.q = <<>>
      [] e.ch = "header" -> e.view.h = <<>>
      [] e.ch = "cookie" -> ~e.view.c
      [] OTHER -> FALSE

MissingReason(ch) ==
    CASE ch = "path" -> "missing path param"
      [] ch = "query" -> "missing query param"
      [] ch = "formData" -> "missing formData param"
      [] ch = "header" -> "missing header param"
      [] ch = "cookie" -> "missing cookie param"
      [] OTHER -> "missing body param"

\* C2: for a Path, Query, FormData, Header or Cookie field whose wire name the
\* request carries no value under, BindFields fails with "missing <channel> param"
\* naming the field when the field is required, and otherwise leaves the slot as
\* it is and goes on.
C2_MissingValue ==
    \A k \in 1..Len(trace[1]) :
        LET e == trace[1][k] IN
        NoValue(e) =>
            IF e.isRequired
            THEN /\ e.outcome = "failed"
                 /\ e.err = NewError(heap[m[1]].name, e.name, MissingReason(e.ch))
            ELSE /\ e.outcome = "skipped"
                 /\ ~e.set

\* C3: BindFields validates every field right after its value was assigned or
\* skipped, uploaded-file fields and optional missing fields included, and the
\* first failure ends the bind: no field after a failed one is resolved.
C3_ValidateEachField ==
    \A k \in 1..Len(trace[1]) :
        LET e == trace[1][k] IN
        /\ k < Len(trace[1]) => e.err = Nil
        /\ e.outcome \in {"assigned", "skipped"} => e.validated

\* C4: no bind entry point lets a runtime fault escape to its caller.
C4_NoFaultEscapes == \A p \in Procs : ~res[p].panic

\* C5: for a Body field, an empty or absent request body fails the bind with
\* "missing body param" when the field is required and is skipped when it is
\* optional; any other body is handed whole to the body-decode function.
C5_BodyMissingOrDecoded ==
    \A k \in 1..Len(trace[1]) :
        LET e == trace[1][k] IN
        e.ch = "body" =>
            CASE e.view.body \in {"empty", "nil"} ->
                    IF e.isRequired
                    THEN /\ e.outcome = "failed"
                         /\ e.err = NewError(heap[m[1]].name, e.name, MissingReason(e.ch))
                    ELSE /\ e.outcome = "skipped"
                         /\ ~e.decoded
              [] e.view.body \in {"json", "garbage"} ->
                    e.decoded /\ e.bodyArg = e.view.body
              [] OTHER -> TRUE

\* ---- the cache and the concurrent callers
BindOps == {"Bind", "BindByName", "BindAt", "BindNew", "BindFields"}

\* The record type compiles.
Compiles(t) == addFields(NewParams(t.ptrName, t, "nil"), <<>>, t).err = Nil

\* The ParamsAPI is what a whole, successful compilation of its record type makes.
Complete(api) ==
    LET r == addFields(NewParams(api.name, api.structType, "nil"), <<>>, api.structType)
    IN r.err = Nil /\ api = r.m

\* This step is a step of caller p.
Moved(p) ==
    \/ pc'[p] # pc[p] \/ call'[p] # call[p] \/ m'[p] # m[p] \/ res'[p] # res[p]
    \/ inst'[p] # inst[p] \/ flds'[p] # flds[p] \/ idx'[p] # idx[p]
    \/ req'[p] # req[p] \/ trace'[p] # trace[p]

\* What BindFields does with the schema api, new slots, the fields and the request
\* when nothing else runs: the views are those of the trace tr.
RECURSIVE RunAlone(_, _, _, _, _, _)
RunAlone(api, slots, fields, rq, tr, i) ==
    IF i > Len(api.params) THEN [err |-> Nil, inst |-> slots]
    ELSE IF i > Len(fields)
    THEN [err |-> NewError(api.name, "?", "index out of range"), inst |-> slots]
    ELSE LET r == FieldStep(api, api.params[i], SlotAt(slots, fields[i]), rq, tr[i].view)
             slots1 == IF r.set THEN SetAt(slots, fields[i], r.val) ELSE slots
         IN IF r.err # Nil THEN [err |-> r.err, inst |-> slots1]
            ELSE RunAlone(api, slots1, fields, r.rq, tr, i + 1)

C7_FailedCompileKeepsCache ==
    [][\A p \in Procs :
          (pc[p] = "addFields" /\ pc'[p] = "idle")
              => /\ res'[p].err # Nil
                 /\ lib' = lib
                 /\ \A n \in DOMAIN lib' : lib'[n] # m[p]]_vars

\* A compilation has failed while the cache held an entry, and the cache holds no
\* entry for the failed type.
C7_Witness ==
    \E p \in Procs :
        /\ pc[p] = "idle"
        /\ res[p].op = "NewParamsAPI"
        /\ res[p].err.reason = "field can not be a pointer"
        /\ DOMAIN lib # {}
        /\ call[p].key \notin DOMAIN lib

\* C8: the map of the cache is read and written under mutual exclusion, every
\* schema the cache holds was compiled in full before it was stored, under its own
\* name, and so is every schema a get has returned.
C8_CacheLinearizable ==
    /\ \A n \in DOMAIN lib : Complete(heap[lib[n]]) /\ heap[lib[n]].name = n
    /\ \A p \in Procs :
          (call[p].op \in {"Bind", "BindByName"} /\ m[p] # 0)
              => Complete(heap[m[p]]) /\ heap[m[p]].name = call[p].key
    /\ \A p, q \in Procs :
          (p # q /\ pc[p] = "set-store") => pc[q] \notin {"set-store", "get-load"}
    /\ \A p \in Procs : pc[p] = "get-load" => mu.w = 0

\* A get has returned the complete schema of a type while another caller holds a
\* partly built schema of the same type.
C8_Witness ==
    \E p, q \in Procs :
        /\ pc[p] = "get-runlock"
        /\ m[p] # 0
        /\ pc[q] = "addFields"
        /\ heap[m[q]].name = call[p].key
        /\ ~Complete(heap[m[q]])

\* C9: a step of a bind changes no schema and no cache entry and writes no slot of
\* another caller's instance, and the bind returns, with the instance it leaves,
\* what BindFields does alone on the same schema and request.
C9_ConcurrentBindsSafe ==
    [][\A p \in Procs :
          (Moved(p) /\ call'[p].op \in BindOps)
              => /\ heap' = heap
                 /\ lib' = lib
                 /\ \A q \in Procs \ {p} : inst'[q] = inst[q]
                 /\ (pc[p] = "loop" /\ pc'[p] = "idle")
                       => LET alone ==
                                RunAlone(heap[m[p]],
                                         NewInstance(heap[m[p]].structType.fields),
                                         flds[p],
                                         [NewRequest(req[p].ctype) EXCEPT
                                             !.bodyRead = (req[p].ctype = "urlencoded"),
                                             !.formParsed =
                                                 IF req[p].ctype = "urlencoded"
                                                 THEN 1 ELSE 0],
                                         trace'[p], 1)
                          IN res'[p].err = alone.err /\ inst'[p] = alone.inst]_vars

\* Two callers are in the loop of BindFields on the same schema, each past its
\* first field, with different values in their instances.
C9_Witness ==
    /\ pc[1] = "loop" /\ pc[2] = "loop"
    /\ m[1] = m[2] /\ m[1] # 0
    /\ idx[1] = 2 /\ idx[2] = 2
    /\ inst[1] # inst[2]

C11_ChannelsReadOwnSource ==
    \A k \in 1..Len(trace[1]) :
        LET e == trace[1][k] IN
        /\ (e.ch = "query" /\ e.view.q = <<>>)
              => (~e.set /\ (e.isRequired => e.outcome = "failed"))
        /\ (e.ch = "formData" /\ ~e.isFile /\ e.view.f = <<>>)
              => (~e.set /\ (e.isRequired => e.outcome = "failed"))

\* ---- the compiled field list
\* The index paths of the fields a record type declares for binding, in depth-first
\* declaration order: the tagged fields that are not ignored, those of the untagged
\* embedded records in place.
RECURSIVE BindableFrom(_, _, _)
BindableFrom(fields, prefix, i) ==
    IF i > Len(fields) THEN <<>>
    ELSE LET f == fields[i]
             here == IF f.hasTag
                     THEN IF f.tag = "-" THEN <<>>
                          ELSE <<Append(prefix, i - 1)>>
                     ELSE IF f.anonymous /\ f.kind = "struct"
                          THEN BindableFrom(f.sub, Append(prefix, i - 1), 1)
                          ELSE <<>>
         IN here \o BindableFrom(fields, prefix, i + 1)

\* The declaration an index path leads to in a record type.
RECURSIVE DeclAt(_, _)
DeclAt(fields, path) ==
    IF Len(path) = 1 THEN fields[Head(path) + 1]
    ELSE DeclAt(fields[Head(path) + 1].sub, Tail(path))

\* The option map a descriptor compiled from declaration d holds.
CompiledTags(d) ==
    LET t1 == IF Get(d.tags, "type") = "path" THEN Put(d.tags, "required", "required")
              ELSE d.tags
        t2 == IF d.regexp # Absent THEN Put(t1, "regexp", d.regexp) ELSE t1
    IN IF d.errTag # Absent THEN Put(t2, "err", d.errTag) ELSE t2

\* C12: the live field slots of a bind are parallel to the descriptors of the
\* schema: one slot per descriptor, in order, and slot k is the field of the
\* target instance that the index path of descriptor k leads to, which is the
\* field descriptor k was compiled from, at any depth of embedding.
C12_SlotsParallelToSchema ==
    \A p \in Procs :
        (pc[p] \in {"BindFields", "loop"}
            /\ call[p].op \in {"Bind", "BindByName", "BindAt", "BindNew"})
        => LET api == heap[m[p]] IN
           /\ Len(flds[p]) = Len(api.params)
           /\ \A k \in 1..Len(api.params) :
                 LET path == api.params[k].indexPath
                     d == DeclAt(api.structType.fields, path)
                 IN /\ flds[p][k] = path
                    /\ PathOk(inst[p], flds[p][k])
                    /\ SlotAt(inst[p], flds[p][k]).goType = d.goType
                    /\ d.hasTag /\ d.tag # TAG_IGNORE_PARAM
                    /\ api.params[k] =
                          NewParam(api, d, Ident(path[Len(path)] + 1), path,
                                   CompiledTags(d))

\* A bind is past a field that sits in a record embedded in an embedded record,
\* and has assigned it.
C12_Witness ==
    /\ pc[1] = "loop"
    /\ \E k \in 1..Len(flds[1]) :
          /\ Len(flds[1][k]) = 3
          /\ idx[1] > k
          /\ trace[1][k].set
          /\ SlotAt(inst[1], flds[1][k]).val # ""

\* C13: every Path descriptor of a compiled schema is required, the required
\* option being added to its option map, and a bind fails with "missing path
\* param", naming the field, when the path parameters have no entry of its name.
C13_PathAlwaysRequired ==
    /\ \A n \in DOMAIN lib :
          \A k \in 1..Len(heap[lib[n]].params) :
              LET param == heap[lib[n]].params[k] IN
              ParamType(param) = "path"
                  => (param.isRequired /\ Has(param.tags, "required"))
    /\ \A k \in 1..Len(trace[1]) :
          LET e == trace[1][k] IN
          (e.ch = "path" /\ e.view.p = <<>>)
              => /\ e.outcome = "failed"
                 /\ ~e.set
                 /\ e.err = NewError(heap[m[1]].name, e.name, "missing path param")
                 /\ res[1].err = e.err

\* A bind has failed at a Path field that is declared without the required
\* option, for want of a path parameter.
C13_Witness ==
    /\ pc[1] = "idle"
    /\ res[1].err.reason = "missing path param"
    /\ Len(trace[1]) > 0
    /\ LET k == Len(trace[1])
           d == DeclAt(call[1].t.fields, heap[m[1]].params[k].indexPath)
       IN /\ trace[1][k].ch = "path"
          /\ trace[1][k].view.p = <<>>
          /\ ~Has(d.tags, "required")

\* C14: the multipart memory limit of a compiled schema is the greatest maxmb
\* option of its fields, those of embedded records included, times 1 MiB, and
\* 32 MiB when no field has a maxmb option.
C14_MaxMemoryIsMaximum ==
    \A n \in DOMAIN lib :
        LET api == heap[lib[n]]
            mbs == { ParseInt(api.params[k].tags["maxmb"]) :
                       k \in { j \in 1..Len(api.params) :
                                 Has(api.params[j].tags, "maxmb") } }
        IN api.maxMemory =
              IF mbs = {} THEN 32 * 1048576
              ELSE (CHOOSE x \in mbs : \A y \in mbs : y <= x) * 1048576

\* A tagged field that is legal by channel and shape.
Legal(d) ==
    LET ch == Get(d.tags, "type") IN
    /\ ch \in {"path", "query", "formData", "body", "header", "cookie"}
    /\ d.goType = "multipart.FileHeader" => ch = "formData"
    /\ d.goType \in {"http.Cookie", "fasthttp.Cookie"} => ch = "cookie"
    /\ ch = "cookie" => d.goType \in {"http.Cookie", "fasthttp.Cookie", "string",
                                       "[]byte", "[]uint8"}

C17_FlattenedInOrder ==
    /\ \A n \in DOMAIN lib :
          LET api == heap[lib[n]]
              paths == BindableFrom(api.structType.fields, <<>>, 1)
          IN /\ Len(api.params) = Len(paths)
             /\ \A k \in 1..Len(paths) :
                   /\ api.params[k].indexPath = paths[k]
                   /\ ParamType(api.params[k])
                         = Get(DeclAt(api.structType.fields, paths[k]).tags, "type")
    /\ \A p \in Procs :
          (pc[p] = "idle" /\ res[p].op = "NewParamsAPI" /\ call[p].argKind = "ptr-struct"
              /\ BindableFrom(call[p].t.fields, <<>>, 1) = <<>>)
          => /\ res[p].err = Nil
             /\ call[p].key \in DOMAIN lib
             /\ heap[lib[call[p].key]].params = <<>>

\* The cache holds the schema of a record type with an ignored field, an untagged
\* field and a record embedded in an embedded record between two tagged fields:
\* four descriptors, the second and third from the embedded records.
C17_Witness ==
    \E n \in DOMAIN lib :
        LET api == heap[lib[n]] IN
        /\ Len(api.structType.fields) = 4
        /\ api.structType.fields[3].tag = "-"
        /\ Len(api.params) = 4
        /\ api.params[1].indexPath = <<0>>
        /\ api.params[2].indexPath = <<1, 0>>
        /\ api.params[3].indexPath = <<1, 1, 0>>
        /\ api.params[4].indexPath = <<3>>

\* C19: within one bind the request body is parsed as a form at most once, and
\* not before the bind gets to its first FormData field: never when the schema
\* has no FormData field.
C19_LazyFormParsing ==
    \A p \in Procs :
        /\ req[p].formParsed <= 1
        /\ (\A k \in 1..Len(trace[p]) : trace[p][k].ch # "formData")
              => req[p].formParsed = 0

\* C16: in every compiled schema a len or regexp constraint sits on a string or
\* string slice field and a range constraint on a numeric or numeric slice field;
\* compilation rejects a record type that places one on any other shape.  Stated
\* on the schemas ToStruct leaves in the cache.
C16_ConstraintsOnFittingShapes ==
    \A n \in DOMAIN lib :
        \A k \in 1..Len(lib[n].Fields) :
            LET field == lib[n].Fields[k]
                d == DeclAt(lib[n].structType.fields, field.Value)
            IN /\ Has(field.Tags, "len") => d.goType \in {"string", "[]string"}
               /\ Has(field.Tags, "regexp") => d.goType \in {"string", "[]string"}
               /\ Has(field.Tags, "range") =>
                     d.goType \in NumberTypes \cup NumberSliceTypes

\* The naming function the engine was configured with: the one given to New, the
\* default when none was given.
Configured == IF Len(apiware.given) = 0 THEN "toSnake" ELSE apiware.given[1]

\* C18: registering a record type with an engine names every descriptor by the
\* explicit name option of its field when there is one, and otherwise by the
\* naming function the engine was made with (the default when none was given)
\* applied to the field identifier; the registration does not fault.
C18_ConfiguredNamingFunction ==
    \A p \in Procs :
        (pc[p] = "idle" /\ res[p].op = "RegStruct" /\ call[p].argKind = "ptr-struct")
        => /\ ~res[p].panic
           /\ res[p].err = Nil =>
                 /\ call[p].t.name \in DOMAIN lib
                 /\ \A k \in 1..Len(lib[call[p].t.name].Fields) :
                       LET field == lib[call[p].t.name].Fields[k]
                           d == DeclAt(call[p].t.fields, field.Value)
                       IN field.Name =
                            IF Has(d.tags, "name") THEN d.tags["name"]
                            ELSE ApplyNameFunc(Configured, Ident(field.Index + 1))

\* The len tuples of the validated records that parseTuple can not take apart.
Malformed(tuple) == tuple = ":"

\* The validation of a field faults: its len tuple is malformed, or it is to be
\* non-zero and its type can not be compared.
Faults(tags, goType) ==
    \/ Has(tags, "len") /\ goType = "string" /\ Malformed(tags["len"])
    \/ Has(tags, "nonzero") /\ IsZero("", goType).panic

\* The failure kinds of one field value, constraint by constraint, in the order
\* length, numeric range, non-zero, pattern; "" where the constraint is absent,
\* does not apply to the type or is met.
KindsOf(tags, val, goType) ==
    << IF Has(tags, "len") /\ goType = "string"
       THEN validateLen(val, tags["len"], "").kind ELSE "",
       IF Has(tags, "range") /\ FieldFloat(val, goType).ok
       THEN validateRange(FieldFloat(val, goType).f, tags["range"], "").kind ELSE "",
       IF Has(tags, "nonzero") /\ IsZero(val, goType).zero THEN "not set" ELSE "",
       IF Has(tags, "regexp") /\ goType = "string"
       THEN validateRegexp(val, tags["regexp"], "").kind ELSE "" >>

\* The kind of the earliest violated constraint, "" when none is violated.
Earliest(kinds) ==
    IF \A j \in 1..Len(kinds) : kinds[j] = "" THEN ""
    ELSE kinds[CHOOSE j \in 1..Len(kinds) :
                  /\ kinds[j] # ""
                  /\ \A h \in 1..(j - 1) : kinds[h] = ""]

\* C20: the failure a validation reports for a field is that of the earliest
\* violated constraint in the order length, numeric range, non-zero, pattern (the
\* custom message instead when the field carries one), and a validation of a
\* record reports the first field that violates a constraint.  Stated for the
\* records no field of which faults in its validation.
C20_EarliestViolatedConstraint ==
    \A p \in Procs :
        (/\ pc[p] = "idle" /\ res[p].op = "Validate" /\ ~res[p].panic
         /\ call[p].argKind = "ptr-struct" /\ call[p].t.name \in DOMAIN lib
         /\ \A k \in 1..Len(call[p].t.fields) :
               ~Faults(call[p].t.fields[k].tags, call[p].t.fields[k].goType))
        => LET model == lib[call[p].t.name]
               first(k) == LET slot == SlotAt(inst[p], <<model.Fields[k].Index>>)
                           IN Earliest(KindsOf(model.Fields[k].Tags, slot.val,
                                               slot.goType))
               bad == { k \in 1..Len(model.Fields) : first(k) # "" }
           IN IF bad = {} THEN res[p].err = Nil
              ELSE LET k == CHOOSE j \in bad : \A h \in bad : j <= h
                       field == model.Fields[k]
                   IN res[p].err =
                        NewError(model.Name, field.Name,
                                 IF Has(field.Tags, "err") THEN field.Tags["err"]
                                 ELSE field.Name \o " " \o first(k))

\* An empty string was validated against a length of 3 to 6, non-zero and a
\* pattern of digits, all three violated, and the length failure was reported.
C20_Witness ==
    \E p \in Procs :
        /\ pc[p] = "idle" /\ res[p].op = "Validate" /\ ~res[p].panic
        /\ call[p].t.name \in DOMAIN lib
        /\ LET field == lib[call[p].t.name].Fields[1]
               slot == SlotAt(inst[p], <<field.Index>>)
           IN /\ slot.val = ""
              /\ KindsOf(field.Tags, slot.val, slot.goType)
                    = <<"too short", "", "not set", "not match">>
              /\ res[p].err = NewError("main.T", field.Name, field.Name \o " too short")

\* The bounds a len tuple of the validated records states: 0 where the lower side
\* is left out, and no upper bound where the upper side is left out.
LenBounds(tuple) ==
    CASE tuple = "3:6" -> [min |-> 3, bounded |-> TRUE, max |-> 6]
      [] tuple = ":4" -> [min |-> 0, bounded |-> TRUE, max |-> 4]
      [] tuple = "3:" -> [min |-> 3, bounded |-> FALSE, max |-> 0]

\* The Validate calls of caller p that came to validate the first descriptor of
\* the schema, a string field with a len constraint and no custom message.
LenValidated(p) ==
    /\ pc[p] = "idle" /\ res[p].op = "Validate" /\ ~res[p].panic
    /\ call[p].argKind = "ptr-struct" /\ call[p].t.name \in DOMAIN lib
    /\ LET field == lib[call[p].t.name].Fields[1] IN
        /\ Has(field.Tags, "len") /\ ~Has(field.Tags, "err")
        /\ inst[p][field.Index + 1].goType = "string"

\* C21: a string field with the length constraint min:max fails with its wire
\* name and "too short" exactly when the length of the string is below min, with
\* its wire name and "too long" exactly when it is above max, and passes the
\* length check for every length from min to max, both included; a side left
\* out of the tuple bounds nothing.
C21_LengthWithinBounds ==
    \A p \in Procs :
        LenValidated(p) =>
            LET model == lib[call[p].t.name]
                field == model.Fields[1]
                n == Len(inst[p][field.Index + 1].val)
                b == LenBounds(field.Tags["len"])
            IN /\ res[p].err = NewError(model.Name, field.Name,
                                        field.Name \o " too short") <=> n < b.min
               /\ res[p].err = NewError(model.Name, field.Name,
                                        field.Name \o " too long")
                     <=> (b.bounded /\ n > b.max)

\* A string of the boundary length 6 was validated against len(3:6) alone and
\* passed.
C21_Witness ==
    \E p \in Procs :
        /\ LenValidated(p)
        /\ lib[call[p].t.name].Fields[1].Tags["len"] = "3:6"
        /\ Len(call[p].t.fields) = 1
        /\ Len(inst[p][1].val) = 6
        /\ res[p].err = Nil

\* The number a value of the validated records stands for, in the 100000000th
\* parts of one.
ValueOf(val) ==
    CASE val = "0" -> 0
      [] val = "7" -> 700000000
      [] val = "9.999999" -> 999999900
      [] val = "9.99999995" -> 999999995
      [] val = "10" -> 1000000000
      [] val = "15" -> 1500000000
      [] val = "20" -> 2000000000
      [] val = "20.00000005" -> 2000000005
      [] val = "20.000001" -> 2000000100
      [] val = "21" -> 2100000000

\* The Validate calls of caller p that came to validate the first descriptor of
\* the schema, a number field with the range constraint 10:20 and no custom
\* message.
RangeValidated(p) ==
    /\ pc[p] = "idle" /\ res[p].op = "Validate" /\ ~res[p].panic
    /\ call[p].argKind = "ptr-struct" /\ call[p].t.name \in DOMAIN lib
    /\ LET field == lib[call[p].t.name].Fields[1] IN
        /\ Has(field.Tags, "range") /\ field.Tags["range"] = "10:20"
        /\ ~Has(field.Tags, "err")
        /\ inst[p][field.Index + 1].goType \in NumberTypes

\* C22: a number field with the range constraint 10:20 fails with its wire name
\* and "too small" exactly when its value is below 10 by more than the tolerance
\* 0.0000001, with its wire name and "too big" exactly when it is above 20 by
\* more than the tolerance, and passes the range check otherwise: 10 and 20 pass.
C22_RangeWithTolerance ==
    \A p \in Procs :
        RangeValidated(p) =>
            LET model == lib[call[p].t.name]
                field == model.Fields[1]
                v == ValueOf(inst[p][field.Index + 1].val)
            IN /\ res[p].err = NewError(model.Name, field.Name,
                                        field.Name \o " too small")
                     <=> v < 1000000000 - 10
               /\ res[p].err = NewError(model.Name, field.Name,
                                        field.Name \o " too big")
                     <=> v > 2000000000 + 10

\* A number below 10 by less than the tolerance was validated against the range
\* 10:20 and passed.
C22_Witness ==
    \E p \in Procs :
        /\ RangeValidated(p)
        /\ inst[p][1].val = "9.99999995"
        /\ res[p].err = Nil

\* C23: a field with the nonzero constraint, of whatever shape (string, number or
\* slice), fails with its wire name and "not set" exactly when its value is the
\* zero value of its shape, and passes the check for every other value.  Stated
\* for the first descriptor of the schema when nonzero is its only constraint or
\* the constraints before it are met.
C23_NotSetExactlyAtZero ==
    \A p \in Procs :
        (/\ pc[p] = "idle" /\ res[p].op = "Validate" /\ ~res[p].panic
         /\ call[p].argKind = "ptr-struct" /\ call[p].t.name \in DOMAIN lib
         /\ Has(lib[call[p].t.name].Fields[1].Tags, "nonzero")
         /\ ~Has(lib[call[p].t.name].Fields[1].Tags, "err"))
        => LET model == lib[call[p].t.name]
               field == model.Fields[1]
               slot == inst[p][field.Index + 1]
               notSet == NewError(model.Name, field.Name, field.Name \o " not set")
           IN /\ res[p].err = notSet => slot.val = Zero(slot.goType)
              /\ slot.val # Zero(slot.goType) =>
                    (res[p].err = Nil \/ res[p].err.param # field.Name
                     \/ res[p].err.reason
                           \in { field.Name \o " " \o k :
                                   k \in {"too short", "too long", "too small",
                                          "too big", "not match"} })
              /\ (slot.val = Zero(slot.goType)
                  /\ KindsOf(field.Tags, slot.val, slot.goType)[1] = ""
                  /\ KindsOf(field.Tags, slot.val, slot.goType)[2] = "")
                   => res[p].err = notSet

\* C24: the validation of a field with a custom error message returns success
\* only if no constraint failed and no fault was raised, and otherwise an error
\* whose text is exactly the message, for a constraint failure as for a fault
\* such as a malformed len tuple.  Stated for the first descriptor of the schema.
C24_CustomMessageForEveryFailure ==
    \A p \in Procs :
        (/\ pc[p] = "idle" /\ res[p].op = "Validate" /\ ~res[p].panic
         /\ call[p].argKind = "ptr-struct" /\ call[p].t.name \in DOMAIN lib
         /\ Has(lib[call[p].t.name].Fields[1].Tags, "err"))
        => LET model == lib[call[p].t.name]
               field == model.Fields[1]
               slot == inst[p][field.Index + 1]
               fault == Faults(field.Tags, slot.goType)
               failed == ~fault /\ Earliest(KindsOf(field.Tags, slot.val,
                                                    slot.goType)) # ""
           IN IF fault \/ failed
              THEN res[p].err = NewError(model.Name, field.Name, field.Tags["err"])
              ELSE res[p].err = Nil \/ res[p].err.param # field.Name

\* C25: for an annotation made only of bare keys and key(value) options,
\* parseTags returns the map whose keys are the keys of the options, a bare key
\* sent to the empty string and a key with a value to the text between its first
\* opening parenthesis and its trailing closing one; being a function of the
\* options alone, the map is the same for every order of the options.
C25_MapOfTheOptions ==
    \A p \in Procs :
        (/\ res[p].op = "parseTags"
         /\ \A k \in 1..Len(call[p].options) :
               call[p].options[k].form \in {"bare", "valued"})
        => /\ DOMAIN res[p].m
                = { call[p].options[k].key : k \in 1..Len(call[p].options) }
           /\ \A k \in 1..Len(call[p].options) :
                 /\ call[p].options[k].key \in DOMAIN res[p].m
                 /\ res[p].m[call[p].options[k].key] = call[p].options[k].value

\* The options of the annotation caller p had parsed are bare keys and keys with
\* values, and no two of them have the same key.
DistinctKeys(p) ==
    /\ res[p].op = "parseTags"
    /\ \A k \in 1..Len(call[p].options) :
          call[p].options[k].form \in {"bare", "valued"}
    /\ \A j, k \in 1..Len(call[p].options) :
          j # k => call[p].options[j].key # call[p].options[k].key

\* C25, as amended: for an annotation made only of bare keys and key(value)
\* options whose keys are pairwise distinct, parseTags returns the map whose keys
\* are the keys of the options, a bare key sent to the empty string and a key
\* with a value to the text between its first opening parenthesis and its
\* trailing closing one, whatever the order of the options.
C25_MapOfDistinctKeys ==
    \A p \in Procs :
        DistinctKeys(p)
        => /\ DOMAIN res[p].m
                = { call[p].options[k].key : k \in 1..Len(call[p].options) }
           /\ \A k \in 1..Len(call[p].options) :
                 res[p].m[call[p].options[k].key] = call[p].options[k].value

\* The annotation b(c),a was parsed: the key with a value before the bare key.
C25_Witness ==
    \E p \in Procs :
        /\ DistinctKeys(p)
        /\ Len(call[p].options) = 2
        /\ call[p].options[1].text = <<"b", "(", "c", ")">>
        /\ call[p].options[2].text = <<"a">>
        /\ res[p].m = [k \in {"a", "b"} |-> IF k = "a" THEN "" ELSE "c"]

\* C26: parseTags sends an option with a malformed parenthesis form (empty
\* parentheses, an opening parenthesis without a closing one, more than one
\* opening parenthesis) to a bare key that is the full text of the option, with
\* the empty value, and makes no entry of a shortened key from it.
C26_MalformedOptionIsBareKey ==
    \A p \in Procs :
        res[p].op = "parseTags" =>
            \A k \in 1..Len(call[p].options) :
                call[p].options[k].form = "malformed" =>
                    /\ Join(call[p].options[k].text) \in DOMAIN res[p].m
                    /\ res[p].m[Join(call[p].options[k].text)] = ""
                    /\ (\A j \in 1..Len(call[p].options) :
                           call[p].options[j].form = "malformed")
                          => call[p].options[k].key \notin DOMAIN res[p].m

\* C27: a Validate call whose ToStruct finds the record type in the cache works
\* with the descriptors of the first compilation, in their order, each bound to
\* the field of the new instance that the first compilation bound it to in its
\* instance, also when the descriptor was flattened from an embedded record; and
\* ToStruct does not fault.
C27_CacheHitBindsSameFields ==
    \A p \in Procs :
        (/\ pc[p] = "idle" /\ res[p].op = "Validate"
         /\ call[p].argKind = "ptr-struct" /\ call[p].t.name \in DOMAIN lib)
        => /\ ~res[p].panic
           /\ m[p].Fields = lib[call[p].t.name].Fields

\* The Validate calls of caller p that came to validate the first descriptor of
\* the schema, a slice field with a len, range or regexp constraint and nothing
\* else.
SliceValidated(p) ==
    /\ pc[p] = "idle" /\ res[p].op = "Validate" /\ ~res[p].panic
    /\ call[p].argKind = "ptr-struct" /\ call[p].t.name \in DOMAIN lib
    /\ LET field == lib[call[p].t.name].Fields[1] IN
        /\ inst[p][field.Index + 1].kind = "slice"
        /\ ~Has(field.Tags, "nonzero")
        /\ \/ Has(field.Tags, "len") \/ Has(field.Tags, "range")
           \/ Has(field.Tags, "regexp")

\* C28: the len, regexp and range constraints of a slice field are skipped: the
\* validation of a string slice or number slice field that has only these
\* constraints never fails, whatever the slice holds.
C28_SliceConstraintsSkipped ==
    \A p \in Procs :
        SliceValidated(p) =>
            \/ res[p].err = Nil
            \/ res[p].err.param # lib[call[p].t.name].Fields[1].Name

\* A slice of numbers that holds 7 was validated against the range 10:20, and
\* passed.
C28_Witness ==
    \E p \in Procs :
        /\ SliceValidated(p)
        /\ inst[p][1].goType = "[]int"
        /\ inst[p][1].val = "7"
        /\ lib[call[p].t.name].Fields[1].Tags["range"] = "10:20"
        /\ res[p].err = Nil

\* C29: distinct record types never share a cache entry: once a record type is
\* registered, the entry under its name stays a schema of that record type,
\* whatever is registered after it, also a different record type with the same
\* textual type name.
C29_EntryKeepsItsType ==
    [][\A n \in DOMAIN lib :
          /\ n \in DOMAIN lib'
          /\ heap'[lib'[n]].structType = heap[lib[n]].structType]_vars

\* C30: a step of the BindFields loop touches no slot but the one of the field it
\* is at, so that when the loop fails at a field the slots of the fields before
\* it keep what was assigned from the request and the slots of the fields after
\* it are as they were before the call; and a BindAt that rejects the instance
\* because its type name differs from the name of the schema modifies no slot
\* and does not read the request.
C30_NoRollbackNoReadAhead ==
    [][\A p \in Procs :
          /\ (pc[p] = "loop" /\ idx[p] <= Len(flds[p]))
               => \A j \in 1..Len(flds[p]) :
                     /\ j # idx[p] => SlotAt(inst'[p], flds[p][j])
                                        = SlotAt(inst[p], flds[p][j])
                     /\ j > idx[p] => SlotAt(inst'[p], flds[p][j])
                                        = SlotAt(NewInstance(call[p].t.fields),
                                                 flds[p][j])
          /\ (pc[p] = "idle" /\ pc'[p] = "idle" /\ call'[p].op = "BindAt"
               /\ res'[p].op = "BindAt")
               => /\ res'[p].err = DoesNotMatch(call'[p].t.ptrName)
                  /\ inst'[p] \in {NewInstance(call'[p].t.fields), <<>>}
                  /\ req'[p].formParsed = 0 /\ ~req'[p].bodyRead
                  /\ trace'[p] = <<>>]_vars

\* A bind failed at the second field of the schema after it had assigned the
\* first from the request: the first slot holds the value, the bind returned the
\* error.
C30_Witness ==
    \E p \in Procs :
        /\ pc[p] = "idle" /\ res[p].op \in BindOps /\ res[p].err # Nil
        /\ Len(trace[p]) = 2 /\ Len(flds[p]) >= 2
        /\ trace[p][1].set /\ trace[p][2].err # Nil
        /\ SlotAt(inst[p], flds[p][1]).val
              # SlotAt(NewInstance(call[p].t.fields), flds[p][1]).val

====
